---- MODULE Spec2Model ----
(***************************************************************************)
(* Model of bombardier's load-driving core: the completion barrier         *)
(* (counted / timed), the worker loop with the statistics it keeps of      *)
(* each request, the two samplers and the coordinator Bombard().           *)
(*                                                                         *)
(* Time is a discrete clock `now`; the barrier is built at now = 0.        *)
(* float64 quotients are kept as exact fractions <<num, den>>.             *)
(***************************************************************************)
EXTENDS Naturals, Integers, FiniteSets, Sequences

\* ---- bounds of the model ------------------------------------------------
MaxConns == 2       \* largest Config.NumConns
MaxReqs == 2        \* largest *Config.NumReqs; also the number of requests
                    \* the workers of a timed run start before they idle
MaxDuration == 1    \* largest *Config.Duration of a timed run, in clock ticks
MaxCancels == 2     \* number of Cancel() calls in one run
MaxCapacity == 1    \* largest capacity of the token bucket
MaxStatCalls == 2   \* number of writeStatistics calls made on their own
MaxIo == 2          \* largest number of bytes one Read or Write transfers
MaxChecks == 2      \* number of checkArgs calls on one Config
MaxLen == 3         \* longest header text given to HeadersList.Set
MaxHeaders == 2     \* most headers in a HeadersList
MaxParts == 4       \* most comma-separated parts of a print spec
MaxCount == 2       \* largest count of one message in an errorMap

\* the clock runs one tick past the latest deadline
MaxTime == MaxDuration + 1

VARIABLES
  kind,         \* Config.testType(): "counted" or "timed"
  numConns,     \* Config.NumConns
  limited,      \* Config.Rate != nil: the token-bucket limiter is in use
  numReqs,      \* countingCompletionBarrier.numReqs
  reqsGrabbed,  \* countingCompletionBarrier.reqsGrabbed
  reqsDone,     \* countingCompletionBarrier.reqsDone
  doneChan,     \* the barrier's doneChan: "open" or "closed"
  closeOnce,    \* the barrier's closeOnce: TRUE once Do has run
  closes,       \* number of close(c.doneChan) statements executed
  duration,     \* timedCompletionBarrier.duration
  now,          \* the clock
  timerPc,      \* the deadline task: "none", "armed" or "fired"
  capacity,     \* capacity of the token bucket
  tokens,       \* tokens in the bucket
  wpc,          \* position of each worker goroutine
  workers,      \* Bombardier.workers (sync.WaitGroup counter)
  cpc,          \* position of Bombard()
  rpc,          \* position of rateMeter()
  bpc,          \* position of barUpdater()
  notifyChan,   \* number of values buffered in Bombardier.doneChan
  reqs,         \* Bombardier.reqs
  bar,          \* current value of the progress bar
  doCalls,      \* number of client.do invocations
  trueGrabs,    \* number of tryGrabWork() calls that returned true
  cancelCalls,  \* number of Cancel() calls
  latencies,    \* Bombardier.latencies: number of values the histogram holds
  counters,     \* Bombardier.req1xx .. req5xx and others
  errors,       \* Bombardier.errors: the count kept for each error message
  errReturns,   \* number of client.do calls that returned a non-nil error
  obj           \* what only one of the specifications looks at: the object
                \* that an operation outside a run works on (a countingConn
                \* with the two byte counters, a Config, a HeadersList, a
                \* print spec or an errorMap), or the RPS mutex and what it
                \* guards, where a run is followed statement by statement

\* a countingConn and the counters of the Bombardier it points to
bytesRead == obj.bytesRead
bytesWritten == obj.bytesWritten
\* (n, err) as the last Read or Write of the countingConn returned it
connRet == obj.connRet
\* the Config that checkArgs and NewBombardier are given
cfg == obj.cfg
\* what the last cfg.checkArgs() returned, and the number of these calls
checkErr == obj.checkErr
checkCalls == obj.checkCalls
\* (*Bombardier, error) as NewBombardier(cfg) returned it
newRet == obj.newRet
\* a HeadersList, the value its last Set was given and what that returned
headers == obj.headers
hdrArg == obj.hdrArg
setErr == obj.setErr
\* the parts of the spec parsePrintSpec was given and (intro, progress, result,
\* err) as it returned them
printSpec == obj.printSpec
printRet == obj.printRet
\* an errorMap: message -> count, 0 for a message that is not in it
errorMap == obj.errorMap
\* what its last byFrequency() returned, and whether that was called and the
\* map not modified since
freq == obj.freq
freqFresh == obj.freqFresh

confVars == <<kind, numConns, limited, numReqs, duration, capacity>>
barrierVars == <<reqsGrabbed, reqsDone, doneChan, closeOnce, closes>>
timeVars == <<now, timerPc>>
samplerVars == <<rpc, bpc, notifyChan, bar>>
statVars == <<latencies, counters, errors, errReturns>>
\* Bombardier.rpl: the set of tasks that hold the mutex
rpl == obj.rpl
\* the value of b.reqs that a worker's b.reqs++ has read
loaded == obj.loaded
\* the local reqs of recordRps
sample == obj.sample
\* the sum of the request counts of all samples taken
sampled == obj.sampled
\* whether the recordRps under way is the one after b.workers.Wait()
final == obj.final

hdrVars == <<headers, hdrArg, setErr>>
printVars == <<printSpec, printRet>>
pureVars == <<obj>>
vars == <<kind, numConns, limited, numReqs, reqsGrabbed, reqsDone, doneChan,
          closeOnce, closes, duration, now, timerPc, capacity,
          tokens, wpc, workers, cpc, rpc, bpc, notifyChan, reqs, bar,
          doCalls, trueGrabs, cancelCalls, latencies, counters, errors,
          errReturns, obj>>
\* everything of a run, which the operations on obj leave alone
runVars == <<confVars, barrierVars, timeVars, tokens, wpc, workers, cpc,
             samplerVars, reqs, doCalls, trueGrabs, cancelCalls, statVars>>

Conns == 1..MaxConns

\* ---- exact fractions standing for float64 quotients ----------------------
Frac(n, d) == <<n, d>>
One == Frac(1, 1)
FracLeq(a, b) == a[1] * b[2] <= b[1] * a[2]
\* int64(f * float64(total))
Scale(f, total) == (f[1] * total) \div f[2]

\* b.start / c.start: the clock value at construction
start == 0

\* ---- the results of client.do and the statistics kept of them ----------------
\* Bombardier's status counters: req1xx .. req5xx and others
StatusCounters == {"req1xx", "req2xx", "req3xx", "req4xx", "req5xx", "others"}
\* the status-class counters among them
StatusClassCounters == StatusCounters \ {"others"}
\* err == nil
Nil == "nil"
\* messages of the errors a client returns
Errs == {"timeout"}
\* status codes the clients of a run return with or without an error
Codes == {0, 200}
\* status codes writeStatistics is called with on its own
AllCodes == {-100, -1, 0, 99, 100, 199, 200, 299, 300, 404, 500, 599, 600,
             700, 999, 1000}
\* Go's integer division, which truncates toward zero
Quot(a, b) == IF a >= 0 THEN a \div b ELSE -((-a) \div b)
\* the sum of a map of counts
RECURSIVE SumOver(_, _)
SumOver(f, S) ==
  IF S = {} THEN 0
  ELSE LET x == CHOOSE y \in S : TRUE IN f[x] + SumOver(f, S \ {x})
Sum(f) == SumOver(f, DOMAIN f)

\* ---- texts: headers, print specs, error messages ----------------------------
\* the characters header texts are made of
Chars == {"a", ":", " "}
\* all texts of at most n characters
TextsUpTo(n) == UNION {[1..k -> Chars] : k \in 0..n}
\* the parts print specs are made of: the three letters, their long names, a
\* part that is none of them and the empty part
PartTokens == {"", "i", "intro", "p", "progress", "r", "result", "a"}
\* a print spec as strings.Split(spec, ",") gives it; <<"">> is the empty spec
PrintSpecs == UNION {[1..k -> PartTokens] : k \in 1..MaxParts}
\* an error of parsePrintSpec: which one, and the part it names
PrintErr(which, part) == [which |-> which, part |-> part]
\* canonical error messages in ascending order
MsgsSorted ==
  <<"dial tcp: connection refused", "request timeout", "tls: handshake failure">>
Msgs == {MsgsSorted[i] : i \in DOMAIN MsgsSorted}
\* a < b for two messages
MsgLess(a, b) ==
  \E i, j \in DOMAIN MsgsSorted :
    MsgsSorted[i] = a /\ MsgsSorted[j] = b /\ i < j

\* ---- Config and its validation --------------------------------------------------
\* a nil *uint64 / *time.Duration
NilPtr == -1
\* time.Second in milliseconds
Second == 1000
\* defaultTestDuration, a valid duration of a timed run
DefaultTestDuration == 10000
\* URLs as urlx.Parse reads them: whether it can parse the text at all, the
\* scheme written in it ("" if there is none) and the host
Urls ==
  [ok : {TRUE}, scheme : {"", "http", "https", "ftp"},
   host : {"", "localhost:8080"}]
  \cup {[ok |-> FALSE, scheme |-> "", host |-> "8080"]}
\* httpMethods and cantHaveBody, as far as the methods of Configs go: GET and
\* POST are allowed methods, and GET carries no body
HttpMethods == {"GET", "POST"}
CantHaveBody == {"GET"}
\* the Configs the checks are tried on
Configs ==
  [NumConns : {0, 1}, NumReqs : {NilPtr, 0, 1},
   Duration : {NilPtr, 999, Second}, Url : Urls,
   Method : {"GET", "POST", "ABRACADABRA"}, CertPath : {"", "cert.pem"},
   KeyPath : {"", "key.pem"}, Body : {"", "BODY"},
   BodyFilePath : {"", "testbody.txt"}, Timeout : {-1, 0},
   Rate : {NilPtr, 0, 1}]
\* a testType() that looks at Duration first
TestType_DurationFirst(c) ==
  IF c.Duration # NilPtr THEN "timed"
  ELSE IF c.NumReqs # NilPtr THEN "counted" ELSE "none"

\* Config.testType
TestType(c) ==
  IF c.NumReqs # NilPtr THEN "counted"
  ELSE IF c.Duration # NilPtr THEN "timed" ELSE "none"

\* Config.checkOrSetDefaultTestType: the Config it leaves
CheckOrSetDefaultTestType(c) ==
  IF TestType(c) = "none" THEN [c EXCEPT !.Duration = DefaultTestDuration]
  ELSE c

\* urlx.Parse: an error, or the URL with the scheme http where none is written
UrlxParse(u) ==
  IF ~u.ok THEN [err |-> "urlx: invalid host", url |-> u]
  ELSE [err |-> Nil,
        url |-> [u EXCEPT !.scheme = IF u.scheme = "" THEN "http" ELSE @]]

\* a checkURL that takes every scheme
UrlAccepted_AnyScheme(url) == url.host # ""

\* the negation of url.Host == "" || (url.Scheme != "http" && url.Scheme != "https")
UrlAccepted(url) == url.host # "" /\ url.scheme \in {"http", "https"}

\* Config.checkURL: the error it returns
CheckURL(c) ==
  LET parsed == UrlxParse(c.Url) IN
    IF parsed.err # Nil THEN parsed.err
    ELSE IF ~UrlAccepted(parsed.url) THEN "errInvalidURL" ELSE Nil

\* Config.checkURL: the Config it leaves, c.Url = url.String() on success
CheckURLConfig(c) ==
  IF CheckURL(c) = Nil THEN [c EXCEPT !.Url = UrlxParse(c.Url).url] ELSE c

\* Config.checkRate
CheckRate(c) == IF c.Rate # NilPtr /\ c.Rate < 1 THEN "errZeroRate" ELSE Nil

\* Config.checkRunParameters
CheckRunParameters(c) ==
  IF c.NumConns < 1 THEN "errInvalidNumberOfConns"
  ELSE IF TestType(c) = "counted" /\ c.NumReqs < 1
    THEN "errInvalidNumberOfRequests"
  ELSE IF TestType(c) = "timed" /\ c.Duration < Second
    THEN "errInvalidTestDuration"
  ELSE Nil

\* Config.checkTimeoutDuration
CheckTimeoutDuration(c) == IF c.Timeout < 0 THEN "errNegativeTimeout" ELSE Nil

\* Config.checkHTTPParameters
CheckHTTPParameters(c) ==
  IF c.Method \notin HttpMethods THEN "invalidHTTPMethodError"
  ELSE IF c.Method \in CantHaveBody /\ (c.Body # "" \/ c.BodyFilePath # "")
    THEN "errBodyNotAllowed"
  ELSE IF c.Body # "" /\ c.BodyFilePath # "" THEN "errBodyProvidedTwice"
  ELSE Nil

\* Config.checkCertPaths
CheckCertPaths(c) ==
  IF c.CertPath # "" /\ c.KeyPath = "" THEN "errNoPathToKey"
  ELSE IF c.CertPath = "" /\ c.KeyPath # "" THEN "errNoPathToCert"
  ELSE Nil

\* a loop that runs every check and returns the error of the last that failed
FirstError_Last(errs) ==
  IF \A i \in DOMAIN errs : errs[i] = Nil THEN Nil
  ELSE errs[CHOOSE i \in DOMAIN errs :
              errs[i] # Nil /\ \A j \in DOMAIN errs : j > i => errs[j] = Nil]

\* for _, check := range checks { if err := check(); err != nil { return err } }
FirstError(errs) ==
  IF \A i \in DOMAIN errs : errs[i] = Nil THEN Nil
  ELSE errs[CHOOSE i \in DOMAIN errs :
              errs[i] # Nil /\ \A j \in DOMAIN errs : j < i => errs[j] = Nil]

\* Config.checkArgs: the error it returns
CheckArgsError(c) ==
  LET d == CheckOrSetDefaultTestType(c) IN
    FirstError(<<CheckURL(d), CheckRate(d), CheckRunParameters(d),
                 CheckTimeoutDuration(d), CheckHTTPParameters(d),
                 CheckCertPaths(d)>>)

\* Config.checkArgs: the Config it leaves; checkURL is the first check
CheckArgsConfig(c) == CheckURLConfig(CheckOrSetDefaultTestType(c))

\* ---- construction: NewBombardier ------------------------------------------
RunInit ==
  /\ kind \in {"counted", "timed"}
  /\ numConns \in 1..MaxConns
  /\ limited \in BOOLEAN
  /\ numReqs \in (IF kind = "counted" THEN 1..MaxReqs ELSE {0})
  /\ duration \in (IF kind = "timed" THEN 1..MaxDuration ELSE {0})
  /\ capacity \in (IF limited THEN 1..MaxCapacity ELSE {0})
  /\ reqsGrabbed = 0
  /\ reqsDone = 0
  /\ doneChan = "open"
  /\ closeOnce = FALSE
  /\ closes = 0
  /\ now = start
  /\ timerPc = IF kind = "timed" THEN "armed" ELSE "none"
  /\ tokens = 0
  /\ wpc = [w \in Conns |-> "off"]
  /\ workers = numConns
  /\ cpc = "begin"
  /\ rpc = "off"
  /\ bpc = "off"
  /\ notifyChan = 0
  /\ reqs = 0
  /\ bar = 0
  /\ doCalls = 0
  /\ trueGrabs = 0
  /\ cancelCalls = 0
  /\ latencies = 0
  /\ counters = [c \in StatusCounters |-> 0]
  /\ errors = [e \in Errs |-> 0]
  /\ errReturns = 0

\* a run: none of the operations outside it is under way
Init == RunInit /\ obj = Nil

\* one run configuration, for the operations outside a run
IdleInit ==
  RunInit /\ kind = "counted" /\ numConns = 1 /\ numReqs = 1 /\ ~limited

\* ---- the done-signal -------------------------------------------------------
\* a close that is not guarded by the Once
CloseOnceDo_Unguarded ==
  /\ closeOnce' = TRUE
  /\ doneChan' = "closed"
  /\ closes' = closes + 1

\* c.closeOnce.Do(func() { close(c.doneChan) })
CloseOnceDo ==
  /\ closeOnce' = TRUE
  /\ doneChan' = IF closeOnce THEN doneChan ELSE "closed"
  /\ closes' = IF closeOnce THEN closes ELSE closes + 1

\* a Cancel() that leaves the done-signal alone
Cancel_NoClose ==
  /\ cancelCalls < MaxCancels
  /\ cancelCalls' = cancelCalls + 1
  /\ UNCHANGED <<confVars, barrierVars, timeVars, tokens, wpc, workers, cpc,
                 samplerVars, reqs, doCalls, trueGrabs, statVars, pureVars>>

\* Cancel() of either barrier
Cancel ==
  /\ cancelCalls < MaxCancels
  /\ cancelCalls' = cancelCalls + 1
  /\ CloseOnceDo
  /\ UNCHANGED <<confVars, reqsGrabbed, reqsDone, timeVars, tokens, wpc,
                 workers, cpc, samplerVars, reqs, doCalls, trueGrabs>>
  /\ UNCHANGED <<statVars, pureVars>>

\* ---- the timed barrier's clock and deadline task ----------------------------
Tick ==
  /\ kind = "timed"
  /\ now < MaxTime
  /\ now' = now + 1
  /\ UNCHANGED <<confVars, barrierVars, timerPc, tokens, wpc, workers, cpc,
                 samplerVars, reqs, doCalls, trueGrabs, cancelCalls>>
  /\ UNCHANGED <<statVars, pureVars>>

\* the function newTimedCompletionBarrier hands to time.AfterFunc: it runs at
\* some moment not before start + duration (the goroutine that arms the timer
\* and the timer's own latency only make it later)
DeadlineFire ==
  /\ timerPc = "armed"
  /\ now >= start + duration
  /\ timerPc' = "fired"
  /\ CloseOnceDo
  /\ UNCHANGED <<confVars, reqsGrabbed, reqsDone, now, tokens, wpc, workers,
                 cpc, samplerVars, reqs, doCalls, trueGrabs, cancelCalls>>
  /\ UNCHANGED <<statVars, pureVars>>

\* ---- completed() -------------------------------------------------------------
\* completed() without the select on doneChan
CountingCompleted_NoSelect == Frac(reqsDone, numReqs)

\* countingCompletionBarrier.completed
CountingCompleted ==
  IF doneChan = "closed" THEN One ELSE Frac(reqsDone, numReqs)
\* timedCompletionBarrier.completed; time.Since(c.start) is now - start
TimedCompleted ==
  IF doneChan = "closed" THEN One ELSE Frac(now - start, duration)
\* b.Barrier.completed(): what a call made in the current state returns
completed == IF kind = "counted" THEN CountingCompleted ELSE TimedCompleted

\* ---- the limiter, as the specification describes it --------------------------
\* a no-op limiter that does not look at the done-signal
PaceCanContinue_IgnoresDone == IF limited THEN tokens > 0 ELSE TRUE

\* pace may return CONTINUE: a token is there (bucket) / the signal is open (no-op)
PaceCanContinue == IF limited THEN tokens > 0 ELSE doneChan = "open"
\* pace may return BREAK: the done-signal is observed
PaceCanBreak == doneChan = "closed"
\* a ticker that adds the capacity to what the bucket holds
Refill_Accumulate ==
  /\ limited
  /\ tokens < 2 * capacity
  /\ tokens' = tokens + capacity
  /\ UNCHANGED <<confVars, barrierVars, timeVars, wpc, workers, cpc,
                 samplerVars, reqs, doCalls, trueGrabs, cancelCalls>>
  /\ UNCHANGED <<statVars, pureVars>>

\* the ticker refills the bucket to its capacity
Refill ==
  /\ limited
  /\ tokens < capacity
  /\ tokens' = capacity
  /\ UNCHANGED <<confVars, barrierVars, timeVars, wpc, workers, cpc,
                 samplerVars, reqs, doCalls, trueGrabs, cancelCalls>>
  /\ UNCHANGED <<statVars, pureVars>>

\* ---- the worker loop ----------------------------------------------------------
\* a worker that tries again instead of leaving the loop
WorkerLoop_Retry(ok) == IF ok THEN "pace" ELSE "grab"

\* for b.Barrier.tryGrabWork() { ... }: the worker goes on to pace
\* (ok) or leaves the loop, and worker() returns
WorkerLoop(ok) == IF ok THEN "pace" ELSE "finished"

\* a Done() that is not deferred: it runs on every pass of the loop head
WorkersDone_NotDeferred(pc) == IF workers > 0 THEN workers - 1 ELSE workers

\* defer b.workers.Done(): runs when worker() returns. It is taken in the step
\* that leaves the loop: nothing waits on anything else the worker does there.
WorkersDone(pc) == IF pc = "finished" THEN workers - 1 ELSE workers

\* the comparison one too generous / always true / strict
CountingGrabOk_OneMore(newGrabbed) == newGrabbed <= numReqs + 1
CountingGrabOk_Always(newGrabbed) == newGrabbed >= 1
CountingGrabOk_Strict(newGrabbed) == newGrabbed < numReqs

\* return reqsDone <= c.numReqs, on the value AddUint64 returned
CountingGrabOk(newGrabbed) == newGrabbed <= numReqs

\* countingCompletionBarrier.tryGrabWork: the select on doneChan
CountingTryGrabWorkSelect(w) ==
  /\ kind = "counted"
  /\ wpc[w] = "grab"
  /\ wpc' = [wpc EXCEPT ![w] =
               IF doneChan = "closed" THEN WorkerLoop(FALSE) ELSE "add"]
  /\ workers' = WorkersDone(wpc'[w])
  /\ UNCHANGED <<confVars, barrierVars, timeVars, tokens, cpc, samplerVars,
                 reqs, doCalls, trueGrabs, cancelCalls>>
  /\ UNCHANGED <<statVars, pureVars>>

\* countingCompletionBarrier.tryGrabWork: the default branch
CountingTryGrabWorkAdd(w) ==
  /\ wpc[w] = "add"
  /\ reqsGrabbed' = reqsGrabbed + 1
  /\ wpc' = [wpc EXCEPT ![w] = WorkerLoop(CountingGrabOk(reqsGrabbed + 1))]
  /\ workers' = WorkersDone(wpc'[w])
  /\ trueGrabs' = IF CountingGrabOk(reqsGrabbed + 1)
                  THEN trueGrabs + 1 ELSE trueGrabs
  /\ UNCHANGED <<confVars, reqsDone, doneChan, closeOnce, closes, timeVars,
                 tokens, cpc, samplerVars, reqs, doCalls, cancelCalls>>
  /\ UNCHANGED <<statVars, pureVars>>

\* timedCompletionBarrier.tryGrabWork
TimedTryGrabWork(w) ==
  /\ kind = "timed"
  /\ wpc[w] = "grab"
  /\ doneChan = "closed" \/ trueGrabs < MaxReqs
  /\ wpc' = [wpc EXCEPT ![w] = WorkerLoop(doneChan = "open")]
  /\ workers' = WorkersDone(wpc'[w])
  /\ trueGrabs' = IF doneChan = "open" THEN trueGrabs + 1 ELSE trueGrabs
  /\ UNCHANGED <<confVars, barrierVars, timeVars, tokens, cpc, samplerVars,
                 reqs, doCalls, cancelCalls>>
  /\ UNCHANGED <<statVars, pureVars>>

\* pace returned cont: performSingleRequest calls client.do
WorkerPaceContinue(w) ==
  /\ wpc[w] = "pace"
  /\ PaceCanContinue
  /\ tokens' = IF limited THEN tokens - 1 ELSE tokens
  /\ wpc' = [wpc EXCEPT ![w] = "do"]
  /\ doCalls' = doCalls + 1
  /\ UNCHANGED <<confVars, barrierVars, timeVars, workers, cpc, samplerVars,
                 reqs, trueGrabs, cancelCalls>>
  /\ UNCHANGED <<statVars, pureVars>>

\* a worker that calls jobDone() on its way out of pace
WorkerPaceBreak_JobDone(w) ==
  /\ wpc[w] = "pace"
  /\ PaceCanBreak
  /\ reqsDone' = reqsDone + 1
  /\ wpc' = [wpc EXCEPT ![w] = WorkerLoop(FALSE)]
  /\ workers' = WorkersDone(wpc'[w])
  /\ UNCHANGED <<confVars, reqsGrabbed, doneChan, closeOnce, closes, timeVars,
                 tokens, cpc, samplerVars, reqs, doCalls, trueGrabs,
                 cancelCalls>>
  /\ UNCHANGED <<statVars, pureVars>>

\* pace returned brk: break
WorkerPaceBreak(w) ==
  /\ wpc[w] = "pace"
  /\ PaceCanBreak
  /\ wpc' = [wpc EXCEPT ![w] = WorkerLoop(FALSE)]
  /\ workers' = WorkersDone(wpc'[w])
  /\ UNCHANGED <<confVars, barrierVars, timeVars, tokens, cpc, samplerVars,
                 reqs, doCalls, trueGrabs, cancelCalls>>
  /\ UNCHANGED <<statVars, pureVars>>

\* a jobDone() that closes the done-signal
TimedJobDone_Closes ==
  /\ doneChan' = "closed"
  /\ closes' = IF doneChan = "closed" THEN closes ELSE closes + 1
  /\ closeOnce' = TRUE
  /\ UNCHANGED <<reqsGrabbed, reqsDone>>

\* timedCompletionBarrier.jobDone: an empty body
TimedJobDone == UNCHANGED <<reqsGrabbed, reqsDone, doneChan, closeOnce, closes>>

\* the switch of writeStatistics with the quotient 6 filed under req5xx
StatusCounter_SixAsFive(code) ==
  LET q == Quot(code, 100) IN
    CASE q = 1 -> "req1xx" [] q = 2 -> "req2xx" [] q = 3 -> "req3xx"
      [] q = 4 -> "req4xx" [] q = 5 \/ q = 6 -> "req5xx" [] OTHER -> "others"

\* switch code / 100 { case 1: ... case 5: ...; default: ... } of
\* writeStatistics: the counter the call picks
StatusCounter(code) ==
  LET q == Quot(code, 100) IN
    CASE q = 1 -> "req1xx" [] q = 2 -> "req2xx" [] q = 3 -> "req3xx"
      [] q = 4 -> "req4xx" [] q = 5 -> "req5xx" [] OTHER -> "others"

\* a histogram that drops the value
LatenciesIncrement_Drop(h) == h

\* b.latencies.Increment(msTaken): the histogram holds one value more
LatenciesIncrement(h) == h + 1

\* b.errors.add(err): one more under the error's message
ErrorsAdd(m, err) == [m EXCEPT ![err] = @ + 1]

\* a writeStatistics whose switch has no default case
WriteStatistics_NoDefault(code) ==
  /\ latencies' = LatenciesIncrement(latencies)
  /\ reqs' = reqs + 1
  /\ counters' = IF StatusCounter(code) = "others" THEN counters
                 ELSE [counters EXCEPT ![StatusCounter(code)] = @ + 1]

\* writeStatistics(code, msTaken)
WriteStatistics(code) ==
  /\ latencies' = LatenciesIncrement(latencies)
  /\ reqs' = reqs + 1
  /\ counters' = [counters EXCEPT ![StatusCounter(code)] = @ + 1]

\* the test of the error inverted
ErrorRecorded_Inverted(err) == err = Nil

\* if err != nil { b.errors.add(err) }
ErrorRecorded(err) == err # Nil

\* a worker that asks the limiter again after a failed request
AfterRequest_RetryOnError(err) ==
  IF err # Nil THEN "pace" ELSE IF kind = "timed" THEN "grab" ELSE "jobDone"

\* where worker() goes on after performSingleRequest, whatever err was: to
\* b.Barrier.jobDone(), which is empty in a timed run, so that the worker of
\* a timed run is back at the loop head at once
AfterRequest(err) == IF kind = "timed" THEN "grab" ELSE "jobDone"

\* performSingleRequest from the return of client.do with (code, _, err) on,
\* and the jobDone() call of a timed run
PerformSingleRequest(w, code, err) ==
  /\ wpc[w] = "do"
  /\ errors' = IF ErrorRecorded(err) THEN ErrorsAdd(errors, err) ELSE errors
  /\ WriteStatistics(code)
  /\ errReturns' = IF err # Nil THEN errReturns + 1 ELSE errReturns
  /\ IF kind = "timed" THEN TimedJobDone ELSE UNCHANGED barrierVars
  /\ wpc' = [wpc EXCEPT ![w] = AfterRequest(err)]
  /\ UNCHANGED <<confVars, timeVars, tokens, workers, cpc, samplerVars,
                 doCalls, trueGrabs, cancelCalls, pureVars>>

\* client.do returns 200 without an error, as it does against a server that
\* answers every request; nothing of the control flow reads the result
DoReturn(w) == PerformSingleRequest(w, 200, Nil)

\* client.do returns any status code, with or without an error
DoReturnAny(w) ==
  \E code \in Codes, err \in Errs \cup {Nil} : PerformSingleRequest(w, code, err)

\* client.do returns 200 without an error, or an error with no status code
DoReturnOrFail(w) ==
  \E err \in Errs \cup {Nil} :
    PerformSingleRequest(w, IF err = Nil THEN 200 ELSE 0, err)

\* the comparison with > for ==
CountingJobDoneCloses_Greater(newDone) == newDone > numReqs

\* the comparison off by one
CountingJobDoneCloses_Early(newDone) == newDone + 1 = numReqs

\* if reqsDone == c.numReqs, on the value AddUint64 returned
CountingJobDoneCloses(newDone) == newDone = numReqs

\* countingCompletionBarrier.jobDone: the atomic increment
CountingJobDone(w) ==
  /\ kind = "counted"
  /\ wpc[w] = "jobDone"
  /\ reqsDone' = reqsDone + 1
  /\ wpc' = [wpc EXCEPT ![w] =
               IF CountingJobDoneCloses(reqsDone + 1) THEN "close" ELSE "grab"]
  /\ UNCHANGED <<confVars, reqsGrabbed, doneChan, closeOnce, closes, timeVars,
                 tokens, workers, cpc, samplerVars, reqs, doCalls, trueGrabs,
                 cancelCalls>>
  /\ UNCHANGED <<statVars, pureVars>>

\* countingCompletionBarrier.jobDone: the close of the done-signal
CountingJobDoneClose(w) ==
  /\ wpc[w] = "close"
  /\ CloseOnceDo
  /\ wpc' = [wpc EXCEPT ![w] = "grab"]
  /\ UNCHANGED <<confVars, reqsGrabbed, reqsDone, timeVars, tokens, workers,
                 cpc, samplerVars, reqs, doCalls, trueGrabs, cancelCalls>>
  /\ UNCHANGED <<statVars, pureVars>>

\* ---- the coordinator: Bombard() -------------------------------------------------
\* b.bar.Total as NewBombardier sets it (a tick of a timed run is one second)
barTotal == IF kind = "counted" THEN numReqs ELSE duration

\* Bombard() up to b.workers.Wait(): spawns the workers and both samplers
BombardStart ==
  /\ cpc = "begin"
  /\ cpc' = "wait"
  /\ wpc' = [w \in Conns |-> IF w <= numConns THEN "grab" ELSE "off"]
  /\ rpc' = "select"
  /\ bpc' = "select"
  /\ UNCHANGED <<confVars, barrierVars, timeVars, tokens, workers, notifyChan,
                 reqs, bar, doCalls, trueGrabs, cancelCalls>>
  /\ UNCHANGED <<statVars, pureVars>>

\* a Bombard() that does not wait for its workers
BombardJoin_NoWait ==
  /\ cpc = "wait"
  /\ cpc' = "recv1"
  /\ UNCHANGED <<confVars, barrierVars, timeVars, tokens, wpc, workers,
                 samplerVars, reqs, doCalls, trueGrabs, cancelCalls>>
  /\ UNCHANGED <<statVars, pureVars>>

\* b.workers.Wait() returns
BombardJoin ==
  /\ cpc = "wait"
  /\ workers = 0
  /\ cpc' = "recv1"
  /\ UNCHANGED <<confVars, barrierVars, timeVars, tokens, wpc, workers,
                 samplerVars, reqs, doCalls, trueGrabs, cancelCalls>>
  /\ UNCHANGED <<statVars, pureVars>>

\* a Bombard() that returns on the first notification
BombardRecv_Once ==
  /\ cpc \in {"recv1", "recv2"}
  /\ notifyChan > 0
  /\ notifyChan' = notifyChan - 1
  /\ cpc' = "returned"
  /\ UNCHANGED <<confVars, barrierVars, timeVars, tokens, wpc, workers, rpc,
                 bpc, reqs, bar, doCalls, trueGrabs,
                 cancelCalls>>
  /\ UNCHANGED <<statVars, pureVars>>

\* <-b.doneChan, twice; then Bombard() returns
BombardRecv ==
  /\ cpc \in {"recv1", "recv2"}
  /\ notifyChan > 0
  /\ notifyChan' = notifyChan - 1
  /\ cpc' = IF cpc = "recv1" THEN "recv2" ELSE "returned"
  /\ UNCHANGED <<confVars, barrierVars, timeVars, tokens, wpc, workers, rpc,
                 bpc, reqs, bar, doCalls, trueGrabs,
                 cancelCalls>>
  /\ UNCHANGED <<statVars, pureVars>>

\* a notification channel that buffers one value
ChanSendReady_CapOne(buffered) == buffered < 1

\* b.doneChan = make(chan struct{}, 2): a send goes through while fewer than
\* two values are buffered
ChanSendReady(buffered) == buffered < 2

\* ---- the RPS sampler: rateMeter() ------------------------------------------------
\* case <-tick: b.recordRps()
RateMeterTick ==
  /\ rpc = "select"
  /\ reqs' = 0
  /\ UNCHANGED <<confVars, barrierVars, timeVars, tokens, wpc, workers, cpc,
                 samplerVars, doCalls, trueGrabs, cancelCalls>>
  /\ UNCHANGED <<statVars, pureVars>>

\* case <-done: about to b.workers.Wait()
RateMeterDone ==
  /\ rpc = "select"
  /\ doneChan = "closed"
  /\ rpc' = "wait"
  /\ UNCHANGED <<confVars, barrierVars, timeVars, tokens, wpc, workers, cpc,
                 bpc, notifyChan, bar, reqs, doCalls, trueGrabs,
                 cancelCalls>>
  /\ UNCHANGED <<statVars, pureVars>>

\* an RPS sampler that takes its final sample without the join
RateMeterFinal_NoWait ==
  /\ rpc = "wait"
  /\ reqs' = 0
  /\ rpc' = "send"
  /\ UNCHANGED <<confVars, barrierVars, timeVars, tokens, wpc, workers, cpc,
                 bpc, notifyChan, bar, doCalls, trueGrabs,
                 cancelCalls>>
  /\ UNCHANGED <<statVars, pureVars>>

\* b.workers.Wait() returns; the final b.recordRps()
RateMeterFinal ==
  /\ rpc = "wait"
  /\ workers = 0
  /\ reqs' = 0
  /\ rpc' = "send"
  /\ UNCHANGED <<confVars, barrierVars, timeVars, tokens, wpc, workers, cpc,
                 bpc, notifyChan, bar, doCalls, trueGrabs,
                 cancelCalls>>
  /\ UNCHANGED <<statVars, pureVars>>

\* b.doneChan <- struct{}{}; return
RateMeterSend ==
  /\ rpc = "send"
  /\ ChanSendReady(notifyChan)
  /\ notifyChan' = notifyChan + 1
  /\ rpc' = "exited"
  /\ UNCHANGED <<confVars, barrierVars, timeVars, tokens, wpc, workers, cpc,
                 bpc, bar, reqs, doCalls, trueGrabs,
                 cancelCalls>>
  /\ UNCHANGED <<statVars, pureVars>>

\* ---- the progress sampler: barUpdater() ------------------------------------------
\* a done case that leaves the bar where the last update put it
BarUpdaterDone_KeepsBar ==
  /\ bpc = "select"
  /\ doneChan = "closed"
  /\ bpc' = "send"
  /\ UNCHANGED <<confVars, barrierVars, timeVars, tokens, wpc, workers, cpc,
                 rpc, notifyChan, bar, reqs, doCalls, trueGrabs,
                 cancelCalls>>
  /\ UNCHANGED <<statVars, pureVars>>

\* case <-done: b.bar.Set64(b.bar.Total)
BarUpdaterDone ==
  /\ bpc = "select"
  /\ doneChan = "closed"
  /\ bar' = barTotal
  /\ bpc' = "send"
  /\ UNCHANGED <<confVars, barrierVars, timeVars, tokens, wpc, workers, cpc,
                 rpc, notifyChan, reqs, doCalls, trueGrabs,
                 cancelCalls>>
  /\ UNCHANGED <<statVars, pureVars>>

\* default: about to call b.Barrier.completed()
BarUpdaterDefault ==
  /\ bpc = "select"
  /\ doneChan = "open"
  /\ bpc' = "completed"
  /\ UNCHANGED <<confVars, barrierVars, timeVars, tokens, wpc, workers, cpc,
                 rpc, notifyChan, bar, reqs, doCalls, trueGrabs,
                 cancelCalls>>
  /\ UNCHANGED <<statVars, pureVars>>

\* current := int64(b.Barrier.completed() * float64(b.bar.Total));
\* b.bar.Set64(current); then the sleep
BarUpdaterCompleted ==
  /\ bpc = "completed"
  /\ bar' = Scale(completed, barTotal)
  /\ bpc' = "select"
  /\ UNCHANGED <<confVars, barrierVars, timeVars, tokens, wpc, workers, cpc,
                 rpc, notifyChan, reqs, doCalls, trueGrabs, cancelCalls>>
  /\ UNCHANGED <<statVars, pureVars>>

\* b.doneChan <- struct{}{}; return
BarUpdaterSend ==
  /\ bpc = "send"
  /\ ChanSendReady(notifyChan)
  /\ notifyChan' = notifyChan + 1
  /\ bpc' = "exited"
  /\ UNCHANGED <<confVars, barrierVars, timeVars, tokens, wpc, workers, cpc,
                 rpc, bar, reqs, doCalls, trueGrabs,
                 cancelCalls>>
  /\ UNCHANGED <<statVars, pureVars>>

\* ---- the run ---------------------------------------------------------------------
Next ==
  \/ Cancel
  \/ Tick
  \/ DeadlineFire
  \/ Refill
  \/ \E w \in Conns : CountingTryGrabWorkSelect(w)
  \/ \E w \in Conns : CountingTryGrabWorkAdd(w)
  \/ \E w \in Conns : TimedTryGrabWork(w)
  \/ \E w \in Conns : WorkerPaceContinue(w)
  \/ \E w \in Conns : WorkerPaceBreak(w)
  \/ \E w \in Conns : DoReturn(w)
  \/ \E w \in Conns : CountingJobDone(w)
  \/ \E w \in Conns : CountingJobDoneClose(w)
  \/ BombardStart
  \/ BombardJoin
  \/ BombardRecv
  \/ RateMeterTick
  \/ RateMeterDone
  \/ RateMeterFinal
  \/ RateMeterSend
  \/ BarUpdaterDone
  \/ BarUpdaterDefault
  \/ BarUpdaterCompleted
  \/ BarUpdaterSend

Spec == Init /\ [][Next]_vars

\* the barrier and its workers alone: the goroutines that never write the
\* barrier (both samplers, Bombard's join) are not scheduled
BarrierNext ==
  \/ Cancel
  \/ Tick
  \/ DeadlineFire
  \/ Refill
  \/ \E w \in Conns : CountingTryGrabWorkSelect(w)
  \/ \E w \in Conns : CountingTryGrabWorkAdd(w)
  \/ \E w \in Conns : TimedTryGrabWork(w)
  \/ \E w \in Conns : WorkerPaceContinue(w)
  \/ \E w \in Conns : WorkerPaceBreak(w)
  \/ \E w \in Conns : DoReturn(w)
  \/ \E w \in Conns : CountingJobDone(w)
  \/ \E w \in Conns : CountingJobDoneClose(w)
  \/ BombardStart

BarrierSpec == Init /\ [][BarrierNext]_vars

\* the barrier, its workers and the progress sampler that calls completed()
ProgressNext ==
  \/ BarrierNext
  \/ BarUpdaterDone
  \/ BarUpdaterDefault
  \/ BarUpdaterCompleted

ProgressSpec == Init /\ [][ProgressNext]_vars

\* ---- the claims -------------------------------------------------------------------

\* C1: a counted run of numReqs requests that is never cancelled has invoked
\* client.do exactly numReqs times when Bombard() returns, for every number
\* of workers and with either limiter.
C1_ExactRequestCount ==
  (kind = "counted" /\ cancelCalls = 0 /\ cpc = "returned")
    => doCalls = numReqs
C1_Witness ==
  /\ kind = "counted" /\ cancelCalls = 0 /\ cpc = "returned"
  /\ numConns = MaxConns /\ numReqs = MaxReqs /\ limited
  /\ doCalls = numReqs /\ reqsGrabbed > numReqs

\* C2: for the counted barrier the number of tryGrabWork() calls that returned
\* true never exceeds numReqs, hence neither does the number of requests,
\* cancelled or not.
C2_AtMostTotalGrabs ==
  kind = "counted" => (trueGrabs <= numReqs /\ doCalls <= numReqs)
C2_Witness ==
  /\ kind = "counted" /\ cancelCalls > 0 /\ numConns = MaxConns
  /\ trueGrabs = numReqs /\ reqsGrabbed > numReqs

\* C3: a tryGrabWork() call made on a closed done-signal returns false and
\* leaves reqsGrabbed alone; on an open signal the counted variant adds exactly
\* one to reqsGrabbed and returns true iff the value before was < numReqs, and
\* the timed variant returns true.
C3_TryGrabWork ==
  [][\A w \in Conns :
       /\ (wpc[w] = "grab" /\ wpc'[w] # "grab" /\ doneChan = "closed")
            => (wpc'[w] = "finished" /\ reqsGrabbed' = reqsGrabbed)
       /\ (wpc[w] = "grab" /\ wpc'[w] # "grab" /\ doneChan = "open"
             /\ kind = "counted")
            => (wpc'[w] = "add" /\ reqsGrabbed' = reqsGrabbed)
       /\ (wpc[w] = "add" /\ wpc'[w] # "add")
            => /\ reqsGrabbed' = reqsGrabbed + 1
               /\ (wpc'[w] = "pace") <=> (reqsGrabbed < numReqs)
               /\ (wpc'[w] = "finished") <=> (reqsGrabbed >= numReqs)
       /\ (wpc[w] = "grab" /\ wpc'[w] # "grab" /\ doneChan = "open"
             /\ kind = "timed")
            => (wpc'[w] = "pace" /\ reqsGrabbed' = reqsGrabbed)
    ]_vars
\* every worker left on a closed signal: no over-grab, no break in pace
C3_Witness ==
  /\ kind = "counted" /\ doneChan = "closed" /\ numConns = MaxConns
  /\ \A w \in Conns : wpc[w] = "finished"
  /\ reqsGrabbed = trueGrabs /\ trueGrabs = doCalls /\ doCalls > 0

\* C4: the jobDone() call of the counted barrier adds one to reqsDone and closes
\* the done-signal iff the new value is numReqs, so that reqsDone = numReqs
\* with no such call still under way means the signal is closed; the timed
\* barrier's jobDone() changes nothing of the barrier.
C4_JobDone ==
  /\ [](( /\ kind = "counted" /\ reqsDone = numReqs
          /\ \A w \in Conns : wpc[w] # "close") => doneChan = "closed")
  /\ [][\A w \in Conns :
          /\ (wpc[w] = "jobDone" /\ wpc'[w] # "jobDone")
               => /\ reqsDone' = reqsDone + 1
                  /\ doneChan' = doneChan
                  /\ (wpc'[w] = "close") <=> (reqsDone' = numReqs)
          /\ (wpc[w] = "close" /\ wpc'[w] # "close")
               => (doneChan' = "closed" /\ reqsDone = numReqs)
          /\ (kind = "timed" /\ wpc[w] = "do" /\ wpc'[w] # "do")
               => (UNCHANGED barrierVars /\ wpc'[w] = "grab")
       ]_vars
C4_Witness ==
  /\ kind = "counted" /\ numReqs = MaxReqs /\ reqsDone = numReqs
  /\ cancelCalls = 0 /\ doneChan = "closed"

\* C5: the done-signal is closed at most once whatever the closers do (jobDone,
\* the deadline task, repeated Cancel()), and once closed it stays closed.
C5_ClosedAtMostOnce ==
  /\ [](closes <= 1 /\ (doneChan = "closed" <=> closes = 1)
          /\ (closeOnce <=> closes = 1))
  /\ [][doneChan = "closed" => (doneChan' = "closed" /\ closes' = closes)]_vars
\* two Cancel() calls and one more closer have all run
C5_Witness ==
  /\ closes = 1 /\ cancelCalls >= 2
  /\ \/ timerPc = "fired"
     \/ /\ kind = "counted" /\ reqsDone = numReqs
        /\ \A w \in Conns : wpc[w] # "close"

\* C6: completed() returns a value in [0, 1] in every reachable state, for both
\* barriers.
C6_CompletedInUnitInterval ==
  FracLeq(Frac(0, 1), completed) /\ FracLeq(completed, One)

\* C7: once the done-signal is closed completed() returns exactly 1.0 for both
\* barriers, whoever closed it, and so does the progress sampler's call.
C7_CompletedOneAfterClose ==
  /\ [](doneChan = "closed" => completed = One)
  /\ [][(bpc = "completed" /\ bpc' # "completed" /\ doneChan = "closed")
          => bar' = barTotal]_vars
\* an early Cancel(): the sampler is about to call completed()
C7_Witness ==
  /\ doneChan = "closed" /\ cancelCalls > 0 /\ bpc = "completed"
  /\ kind = "counted" /\ reqsDone < numReqs /\ reqsDone > 0

\* C8: as long as Cancel() has not been called, the value of completed() never
\* decreases from one moment to the next, for both barriers.
C8_CompletedMonotonic ==
  [][cancelCalls' = 0 => FracLeq(completed, completed')]_vars

\* C9: for the counted barrier driven by numConns workers,
\* reqsGrabbed <= numReqs + numConns in every reachable state: at most one
\* over-grab per worker, a worker that left its loop never grabbing again.
C9_OverGrabBounded ==
  /\ [](kind = "counted" =>
          /\ reqsGrabbed <= numReqs + numConns
          /\ reqsGrabbed - trueGrabs <= numConns)
  /\ [][\A w \in Conns : wpc[w] = "finished" => wpc'[w] = "finished"]_vars
\* all workers but the one whose jobDone() closed the signal have over-grabbed
C9_Witness ==
  /\ kind = "counted" /\ numConns = MaxConns /\ numReqs = MaxReqs
  /\ reqsGrabbed = numReqs + numConns - 1

\* the barrier and its workers with a clock that keeps running and a deadline
\* task that runs once it is due
BarrierFairSpec ==
  Init /\ [][BarrierNext]_vars /\ WF_vars(Tick) /\ WF_vars(DeadlineFire)

\* C10: the timed barrier's done-signal is closed once, by the deadline task
\* (not before start + duration) or by Cancel(), whichever runs first, never by
\* jobDone(); and with the deadline task scheduled it is closed eventually.
C10_TimedClosesOnce ==
  /\ [](kind = "timed" => closes <= 1)
  /\ [][(kind = "timed" /\ closes' # closes)
          => /\ doneChan = "open" /\ doneChan' = "closed"
             /\ \/ cancelCalls' = cancelCalls + 1
                \/ /\ timerPc = "armed" /\ timerPc' = "fired"
                   /\ now >= start + duration]_vars
  /\ [][(kind = "timed" /\ doneChan = "open"
           /\ (cancelCalls' # cancelCalls \/ timerPc' # timerPc))
          => (doneChan' = "closed" /\ closes' = 1)]_vars
  /\ (kind = "timed") ~> (doneChan = "closed")
\* the deadline task closed the signal, no Cancel() before it
C10_Witness ==
  /\ kind = "timed" /\ timerPc = "fired" /\ cancelCalls = 0
  /\ closes = 1 /\ doCalls > 0

\* ---- the recording of requests ---------------------------------------------------
\* the barrier and its workers against clients that return any result
RecordNext ==
  \/ Cancel
  \/ Tick
  \/ DeadlineFire
  \/ Refill
  \/ \E w \in Conns : CountingTryGrabWorkSelect(w)
  \/ \E w \in Conns : CountingTryGrabWorkAdd(w)
  \/ \E w \in Conns : TimedTryGrabWork(w)
  \/ \E w \in Conns : WorkerPaceContinue(w)
  \/ \E w \in Conns : WorkerPaceBreak(w)
  \/ \E w \in Conns : DoReturnAny(w)
  \/ \E w \in Conns : CountingJobDone(w)
  \/ \E w \in Conns : CountingJobDoneClose(w)
  \/ BombardStart

RecordSpec == Init /\ [][RecordNext]_vars

\* the workers against clients that answer 200 or fail, with Bombard()'s join
\* and the exit of both samplers; the periodic work of the samplers, which
\* writes reqs and the bar only, is not scheduled
RecordJoinNext ==
  \/ Cancel
  \/ Tick
  \/ DeadlineFire
  \/ Refill
  \/ \E w \in Conns : CountingTryGrabWorkSelect(w)
  \/ \E w \in Conns : CountingTryGrabWorkAdd(w)
  \/ \E w \in Conns : TimedTryGrabWork(w)
  \/ \E w \in Conns : WorkerPaceContinue(w)
  \/ \E w \in Conns : WorkerPaceBreak(w)
  \/ \E w \in Conns : DoReturnOrFail(w)
  \/ \E w \in Conns : CountingJobDone(w)
  \/ \E w \in Conns : CountingJobDoneClose(w)
  \/ BombardStart
  \/ BombardJoin
  \/ BombardRecv
  \/ RateMeterDone
  \/ RateMeterFinal
  \/ RateMeterSend
  \/ BarUpdaterDone
  \/ BarUpdaterSend

RecordJoinSpec == Init /\ [][RecordJoinNext]_vars

\* C11: a request in flight when the done-signal closes runs to completion and
\* is recorded as any other: one latency, one status counter, its error if it
\* has one, then its jobDone(); a worker leaves its loop only from the loop
\* head, so with all workers returned every request is recorded, and
\* Bombard() gets past its join only then.
C11_InFlightRecorded ==
  /\ [][\A w \in Conns :
          /\ (wpc[w] = "do" /\ doneChan = "closed" /\ wpc'[w] # "do")
               => /\ latencies' = latencies + 1
                  /\ Sum(counters') = Sum(counters) + 1
                  /\ Sum(errors') - Sum(errors) = errReturns' - errReturns
                  /\ wpc'[w] = IF kind = "counted" THEN "jobDone" ELSE "grab"
          /\ (wpc[w] = "jobDone" /\ doneChan = "closed" /\ wpc'[w] # "jobDone")
               => (reqsDone' = reqsDone + 1 /\ wpc'[w] \in {"grab", "close"})
          /\ (wpc'[w] = "finished" /\ wpc[w] # "finished")
               => wpc[w] \in {"grab", "add", "pace"}
       ]_vars
  /\ []((\A w \in Conns : wpc[w] \in {"off", "finished"})
          => /\ latencies = doCalls
             /\ Sum(counters) = doCalls
             /\ Sum(errors) = errReturns
             /\ kind = "counted" => reqsDone = doCalls)
  /\ [](cpc \in {"recv1", "recv2", "returned"}
          => \A w \in Conns : wpc[w] \in {"off", "finished"})
\* the deadline task closed the signal with a request in flight, which no
\* pace call of the no-op limiter lets start afterwards
C11_Witness ==
  /\ kind = "timed" /\ ~limited /\ timerPc = "fired" /\ cancelCalls = 0
  /\ doneChan = "closed" /\ \E w \in Conns : wpc[w] = "do"

\* ---- termination --------------------------------------------------------------------
\* one step of worker w
WorkerStep(w) ==
  \/ CountingTryGrabWorkSelect(w)
  \/ CountingTryGrabWorkAdd(w)
  \/ TimedTryGrabWork(w)
  \/ WorkerPaceContinue(w)
  \/ WorkerPaceBreak(w)
  \/ DoReturn(w)
  \/ CountingJobDone(w)
  \/ CountingJobDoneClose(w)

\* the goroutines of Bombard() keep running: every worker (a client.do call
\* returns), Bombard() itself, and both samplers, whose select takes the done
\* case in the end
GoroutinesFair ==
  /\ \A w \in Conns : WF_vars(WorkerStep(w))
  /\ WF_vars(BombardStart \/ BombardJoin \/ BombardRecv)
  /\ WF_vars(RateMeterDone \/ RateMeterFinal \/ RateMeterSend)
  /\ WF_vars(BarUpdaterDone \/ BarUpdaterSend)

\* the run is over: every worker has returned, both samplers have exited and
\* Bombard() has returned
Terminated ==
  /\ \A w \in Conns : w <= numConns => wpc[w] = "finished"
  /\ rpc = "exited" /\ bpc = "exited"
  /\ cpc = "returned"

\* a run in which Cancel() may be called at any moment and nothing else closes
\* the done-signal of a timed run: the clock stands still. The periodic work
\* of the samplers, which writes reqs and the bar only, is not scheduled.
CancelNext ==
  \/ Cancel
  \/ Refill
  \/ \E w \in Conns : WorkerStep(w)
  \/ BombardStart
  \/ BombardJoin
  \/ BombardRecv
  \/ RateMeterDone
  \/ RateMeterFinal
  \/ RateMeterSend
  \/ BarUpdaterDone
  \/ BarUpdaterSend

CancelFairSpec == Init /\ [][CancelNext]_vars /\ GoroutinesFair

\* C12: once Cancel() has been called, at whatever point of a counted or timed
\* run with either limiter, every worker leaves its loop, both samplers exit
\* and Bombard() returns.
C12_CancelTerminates == (cancelCalls > 0) ~> Terminated
\* Cancel() came before the deadline of a timed run that is now over
C12_Witness ==
  /\ Terminated /\ cancelCalls > 0 /\ kind = "timed" /\ timerPc = "armed"
  /\ doCalls > 0

\* a run in which Cancel() is never called: the clock keeps running, the
\* deadline task runs once it is due and the ticker keeps refilling the bucket
DeadlineNext ==
  \/ Tick
  \/ DeadlineFire
  \/ Refill
  \/ \E w \in Conns : WorkerStep(w)
  \/ BombardStart
  \/ BombardJoin
  \/ BombardRecv
  \/ RateMeterDone
  \/ RateMeterFinal
  \/ RateMeterSend
  \/ BarUpdaterDone
  \/ BarUpdaterSend

DeadlineFairSpec ==
  /\ Init /\ [][DeadlineNext]_vars /\ GoroutinesFair
  /\ WF_vars(Tick) /\ WF_vars(DeadlineFire) /\ WF_vars(Refill)

\* C13: with no Cancel() every run ends: every worker returns, both samplers
\* exit and Bombard() returns, in a timed run not before the deadline task has
\* run and in a counted run not before the numReqs-th jobDone().
C13_RunTerminates ==
  /\ <>Terminated
  /\ [](cpc = "returned" =>
          IF kind = "timed" THEN timerPc = "fired" /\ now >= start + duration
          ELSE reqsDone = numReqs)
\* a rate-limited timed run that has ended after its deadline
C13_Witness ==
  /\ Terminated /\ kind = "timed" /\ limited /\ timerPc = "fired"
  /\ numConns = MaxConns /\ doCalls > 0

\* C14: Bombard() gets past its join only with every worker returned and
\* returns only with both samplers exited, each having sent one notification
\* (the notifications sent are those buffered plus those received, one for
\* each sampler that has exited); a sampler that is about to send can send,
\* whatever the other sampler and Bombard() have done by then.
C14_JoinAndNotifications ==
  /\ cpc \in {"recv1", "recv2", "returned"}
       => \A w \in Conns : w <= numConns => wpc[w] = "finished"
  /\ cpc = "returned" => (rpc = "exited" /\ bpc = "exited" /\ notifyChan = 0)
  /\ notifyChan + (CASE cpc = "recv2" -> 1 [] cpc = "returned" -> 2
                      [] OTHER -> 0)
       = (IF rpc = "exited" THEN 1 ELSE 0) + (IF bpc = "exited" THEN 1 ELSE 0)
  /\ rpc = "send" => ENABLED RateMeterSend
  /\ bpc = "send" => ENABLED BarUpdaterSend
\* both notifications are buffered while Bombard() still waits for the workers
C14_Witness ==
  /\ notifyChan = 2 /\ cpc = "wait" /\ numConns = MaxConns
  /\ rpc = "exited" /\ bpc = "exited"

\* ---- writeStatistics on its own ---------------------------------------------------
\* a call of writeStatistics with any status code
WriteStatisticsCall ==
  /\ latencies < MaxStatCalls
  /\ \E code \in AllCodes : WriteStatistics(code)
  /\ UNCHANGED <<confVars, barrierVars, timeVars, tokens, wpc, workers, cpc,
                 samplerVars, doCalls, trueGrabs, cancelCalls, errors,
                 errReturns, pureVars>>

StatisticsSpec == Init /\ [][WriteStatisticsCall]_vars

\* C15: a writeStatistics call adds exactly one to exactly one status counter,
\* the one of the quotient code / 100: 1 -> req1xx, ..., 5 -> req5xx, every
\* other quotient (0, 6, 7, ..., and those of negative codes) -> others; the
\* other five counters keep their values.
C15_OneStatusCounter ==
  [][LET Expected(code) ==
           IF code >= 100 /\ code <= 199 THEN "req1xx"
           ELSE IF code >= 200 /\ code <= 299 THEN "req2xx"
           ELSE IF code >= 300 /\ code <= 399 THEN "req3xx"
           ELSE IF code >= 400 /\ code <= 499 THEN "req4xx"
           ELSE IF code >= 500 /\ code <= 599 THEN "req5xx"
           ELSE "others"
     IN \A code \in AllCodes :
          WriteStatistics(code)
            => /\ counters'[Expected(code)] = counters[Expected(code)] + 1
               /\ \A c \in StatusCounters \ {Expected(code)} :
                    counters'[c] = counters[c]
               /\ Sum(counters') = Sum(counters) + 1
    ]_vars
\* a 6xx or other unclassed code and a 5xx code have been counted
C15_Witness ==
  /\ counters["others"] = 1 /\ counters["req5xx"] = 1 /\ latencies = 2
  /\ \A w \in Conns : wpc[w] = "off"

\* ---- the statistics of the requests of a run ------------------------------------
\* C16: a request whose client.do returned a non-nil error adds one to the
\* error map and leaves req1xx .. req5xx alone, whatever status code came
\* with the error.
C16_ErrorNotInStatusClass ==
  [][\A w \in Conns, code \in Codes, err \in Errs :
       PerformSingleRequest(w, code, err)
         => /\ Sum(errors') = Sum(errors) + 1
            /\ \A c \in StatusClassCounters : counters'[c] = counters[c]
    ]_vars

\* C17: every request performed adds exactly one value to the latency
\* histogram, whether client.do returned an error or not, and nothing else
\* adds any: the histogram holds one value for each client.do call that has
\* returned, hence one for each call once the workers have returned.
C17_LatencyPerRequest ==
  /\ [][\A w \in Conns, code \in Codes, err \in Errs \cup {Nil} :
          PerformSingleRequest(w, code, err) => latencies' = latencies + 1
       ]_vars
  /\ [][latencies' # latencies
          => \E w \in Conns : wpc[w] = "do" /\ wpc'[w] # "do"]_vars
  /\ [](latencies + Cardinality({w \in Conns : wpc[w] = "do"}) = doCalls)
  /\ []((\A w \in Conns : wpc[w] = "finished" \/ w > numConns)
          => latencies = doCalls)
\* the workers have returned from a run with failed and successful requests
C17_Witness ==
  /\ \A w \in Conns : wpc[w] = "finished" \/ w > numConns
  /\ errReturns > 0 /\ errReturns < doCalls /\ latencies = doCalls

\* C18: a request whose client.do returned a non-nil error adds exactly one
\* to the error map and a request without error adds nothing, so the counts of
\* the map sum to the number of failed requests; when all numReqs requests
\* of a counted run have failed the sum is numReqs.
C18_ErrorCounts ==
  /\ [][\A w \in Conns, code \in Codes :
          /\ \A err \in Errs :
               PerformSingleRequest(w, code, err)
                 => /\ errors'[err] = errors[err] + 1
                    /\ Sum(errors') = Sum(errors) + 1
          /\ PerformSingleRequest(w, code, Nil) => errors' = errors
       ]_vars
  /\ [](Sum(errors) = errReturns)
  /\ []((kind = "counted" /\ reqsDone = numReqs /\ errReturns = doCalls)
          => Sum(errors) = numReqs)
\* a counted run whose requests have all failed
C18_Witness ==
  /\ kind = "counted" /\ numReqs = MaxReqs /\ reqsDone = numReqs
  /\ cancelCalls = 0 /\ errReturns = doCalls /\ Sum(errors) = numReqs

\* C19: a failed request is neither retried nor fatal. A pace call that
\* returns CONTINUE is followed by exactly one client.do call; whatever that
\* call returns, the worker goes on to exactly one jobDone() (which is empty
\* in a timed run) and from there to the loop head, and the done-signal is
\* left as it was; client.do is called nowhere else, so the calls never
\* outnumber the tryGrabWork() calls that returned true.
C19_NoRetryNoAbort ==
  /\ [][\A w \in Conns :
          /\ (wpc[w] = "pace" /\ wpc'[w] = "do") => doCalls' = doCalls + 1
          /\ \A code \in Codes, err \in Errs \cup {Nil} :
               PerformSingleRequest(w, code, err)
                 => /\ wpc'[w] = IF kind = "counted" THEN "jobDone" ELSE "grab"
                    /\ doCalls' = doCalls
                    /\ UNCHANGED <<doneChan, closes, workers>>
          /\ (wpc[w] = "jobDone" /\ wpc'[w] # "jobDone")
               => (reqsDone' = reqsDone + 1 /\ wpc'[w] \in {"grab", "close"})
          /\ (wpc[w] = "close" /\ wpc'[w] # "close") => wpc'[w] = "grab"
       ]_vars
  /\ [][doCalls' # doCalls
          => \E w \in Conns : wpc[w] = "pace" /\ wpc'[w] = "do"]_vars
  /\ [](doCalls <= trueGrabs)
  /\ [](kind = "counted" =>
          doCalls = reqsDone
                    + Cardinality({w \in Conns : wpc[w] \in {"do", "jobDone"}}))
\* a worker is back at the loop head after a failed request, the run going on
C19_Witness ==
  /\ errReturns > 0 /\ doneChan = "open" /\ kind = "counted"
  /\ reqsDone = errReturns /\ reqsDone < numReqs
  /\ numConns = 1 /\ wpc[1] = "grab"

\* ---- the limiter ----------------------------------------------------------------------
\* the barrier and its workers, every worker running on when it can
PaceFairSpec ==
  Init /\ [][BarrierNext]_vars /\ \A w \in Conns : WF_vars(WorkerStep(w))

\* C20: pace returns BREAK only on a closed done-signal and CONTINUE only
\* with a token taken (bucket) or on an open signal (no-op limiter). The
\* no-op limiter never blocks: it returns CONTINUE on an open signal and
\* BREAK on a closed one. The bucket limiter blocks exactly while there is
\* neither a token nor a closed signal, and a pace call under way on a closed
\* signal returns in the end, with BREAK unless it got a token.
C20_Pace ==
  /\ [][\A w \in Conns :
          (wpc[w] = "pace" /\ wpc'[w] # "pace")
            => /\ wpc'[w] \in {"do", "finished"}
               /\ wpc'[w] = "finished" => doneChan = "closed"
               /\ wpc'[w] = "do"
                    => IF limited THEN tokens > 0 /\ tokens' = tokens - 1
                       ELSE doneChan = "open" /\ tokens' = tokens
               /\ (tokens = 0 /\ doneChan = "closed") => wpc'[w] = "finished"
       ]_vars
  /\ [](\A w \in Conns :
          wpc[w] = "pace"
            => /\ ~limited
                    => /\ ENABLED WorkerPaceContinue(w) <=> doneChan = "open"
                       /\ ENABLED WorkerPaceBreak(w) <=> doneChan = "closed"
               /\ limited
                    => ((tokens = 0 /\ doneChan = "open")
                          <=> ~ENABLED (WorkerPaceContinue(w)
                                          \/ WorkerPaceBreak(w))))
  /\ \A w \in Conns :
       (wpc[w] = "pace" /\ doneChan = "closed") ~> (wpc[w] # "pace")
\* every worker has returned from a rate-limited run in which a pace call
\* returned BREAK
C20_Witness ==
  /\ limited /\ doneChan = "closed" /\ numConns = MaxConns
  /\ \A w \in Conns : wpc[w] = "finished"
  /\ trueGrabs > doCalls /\ doCalls > 0

\* C21: the bucket never holds more than its capacity: a refill fills it up
\* to the capacity and no further, whatever it held, and a pace call that
\* returns CONTINUE takes one token that is there, so that no more than
\* capacity calls return CONTINUE between two refills.
C21_BucketCapped ==
  /\ [](tokens >= 0 /\ tokens <= capacity)
  /\ [][tokens' > tokens => (limited /\ tokens' = capacity)]_vars
  /\ [][tokens' < tokens
          => /\ limited /\ tokens > 0 /\ tokens' = tokens - 1
             /\ doCalls' = doCalls + 1]_vars
  /\ [][doCalls' # doCalls /\ limited => tokens' = tokens - 1]_vars
\* the bucket is full again after the workers have emptied it
C21_Witness ==
  /\ limited /\ capacity = MaxCapacity /\ tokens = capacity
  /\ doCalls > capacity

\* ---- countingConn ---------------------------------------------------------------------
\* the wrapped connection: Read / Write of at most MaxIo bytes, with or
\* without an error
\* a conn that credits whatever was transferred
CountedBytes_Always(n, err) == n

\* if err == nil { atomic.AddInt64(counter, int64(n)) }: what is added
CountedBytes(n, err) == IF err = Nil THEN n ELSE 0

\* countingConn.Read when cc.Conn.Read returns (n, err)
CountingConnRead(n, err) ==
  /\ bytesRead <= MaxIo
  /\ obj' = [obj EXCEPT !.bytesRead = @ + CountedBytes(n, err),
                        !.connRet = <<n, err>>]
  /\ UNCHANGED runVars

\* countingConn.Write with the wrapped connection's Write returning (n, err)
CountingConnWrite(n, err) ==
  /\ bytesWritten <= MaxIo
  /\ obj' = [obj EXCEPT !.bytesWritten = @ + CountedBytes(n, err),
                        !.connRet = <<n, err>>]
  /\ UNCHANGED runVars

ConnNext ==
  \/ \E n \in 0..MaxIo, err \in Errs \cup {Nil} : CountingConnRead(n, err)
  \/ \E n \in 0..MaxIo, err \in Errs \cup {Nil} : CountingConnWrite(n, err)

\* a countingConn of a Bombardier that has not read or written a byte
ConnInit ==
  /\ RunInit
  /\ obj = [bytesRead |-> 0, bytesWritten |-> 0, connRet |-> <<0, Nil>>]
ConnSpec == ConnInit /\ [][ConnNext]_vars

\* C22: Read and Write return the (n, err) of the wrapped connection as it
\* is; with err nil they add n to bytesRead / bytesWritten, with err non-nil
\* they leave both counters alone; Read never changes bytesWritten nor Write
\* bytesRead.
C22_CountingConn ==
  [][\A n \in 0..MaxIo, err \in Errs \cup {Nil} :
       /\ CountingConnRead(n, err)
            => /\ connRet' = <<n, err>>
               /\ bytesWritten' = bytesWritten
               /\ bytesRead' = IF err = Nil THEN bytesRead + n ELSE bytesRead
       /\ CountingConnWrite(n, err)
            => /\ connRet' = <<n, err>>
               /\ bytesRead' = bytesRead
               /\ bytesWritten' = IF err = Nil THEN bytesWritten + n
                                  ELSE bytesWritten
    ]_vars
\* bytes were read and written, and the last call failed
C22_Witness ==
  /\ bytesRead > MaxIo /\ bytesWritten > 0 /\ bytesRead # bytesWritten
  /\ connRet[2] # Nil /\ connRet[1] > 0

\* C23: a Read or Write whose wrapped call returns n > 0 together with a
\* non-nil error credits the n bytes to its counter.
C23_PartialCredited ==
  [][\A n \in 1..MaxIo, err \in Errs :
       /\ CountingConnRead(n, err) => bytesRead' = bytesRead + n
       /\ CountingConnWrite(n, err) => bytesWritten' = bytesWritten + n
    ]_vars

\* ---- Config validation as a program of its own ---------------------------------
\* a Config as the caller fills it in, nothing of the run started
ConfigInit ==
  /\ IdleInit
  /\ \E c \in Configs :
       obj = [cfg |-> c, checkErr |-> Nil, checkCalls |-> 0,
              newRet |-> <<"unset", Nil>>]

\* cfg.checkArgs()
CheckArgsCall ==
  /\ checkCalls < MaxChecks
  /\ obj' = [obj EXCEPT !.checkErr = CheckArgsError(cfg),
                        !.cfg = CheckArgsConfig(cfg),
                        !.checkCalls = @ + 1]
  /\ UNCHANGED runVars

\* a NewBombardier that goes on after a checkArgs error
NewBombardierResult_BuildsAnyway(err) == <<"built", err>>

\* if err := c.checkArgs(); err != nil { return nil, err } ... return b, nil
NewBombardierResult(err) ==
  IF err # Nil THEN <<"nil", err>> ELSE <<"built", Nil>>

\* NewBombardier(cfg): the Config is passed by value, cfg itself stays
NewBombardierCall ==
  /\ newRet[1] = "unset"
  /\ obj' = [obj EXCEPT !.newRet = NewBombardierResult(CheckArgsError(cfg))]
  /\ UNCHANGED runVars

ConfigNext == CheckArgsCall \/ NewBombardierCall
ConfigSpec == ConfigInit /\ [][ConfigNext]_vars

C25_CheckArgsRules ==
  [][checkCalls' # checkCalls =>
       LET c == cfg
           Rules ==
             << <<c.Url.ok /\ c.Url.host # ""
                    /\ c.Url.scheme \in {"", "http", "https"},
                  {"errInvalidURL"}>>,
                <<c.Rate = NilPtr \/ c.Rate >= 1, {"errZeroRate"}>>,
                <<c.NumConns >= 1, {"errInvalidNumberOfConns"}>>,
                <<c.NumReqs = NilPtr \/ c.NumReqs >= 1,
                  {"errInvalidNumberOfRequests"}>>,
                <<(c.NumReqs = NilPtr /\ c.Duration # NilPtr)
                    => c.Duration >= Second,
                  {"errInvalidTestDuration"}>>,
                <<c.Timeout >= 0, {"errNegativeTimeout"}>>,
                <<c.Method \in HttpMethods, {"invalidHTTPMethodError"}>>,
                <<c.Method \in CantHaveBody
                    => (c.Body = "" /\ c.BodyFilePath = ""),
                  {"errBodyNotAllowed"}>>,
                <<~(c.Body # "" /\ c.BodyFilePath # ""),
                  {"errBodyProvidedTwice"}>>,
                <<(c.CertPath = "") <=> (c.KeyPath = ""),
                  {IF c.KeyPath = "" THEN "errNoPathToKey"
                   ELSE "errNoPathToCert"}>> >>
           violated == {i \in DOMAIN Rules : ~Rules[i][1]}
       IN /\ (checkErr' = Nil) <=> (violated = {})
          /\ \A i \in violated : violated = {i} => checkErr' \in Rules[i][2]
    ]_vars

\* C26: testType() is counted whenever NumReqs is set, timed when only Duration
\* is set and none when neither is; checkArgs gives a Config of type none the
\* default test duration, which makes it timed, and leaves NumReqs and Duration
\* of a counted or timed Config as they are
C26_TestType ==
  [][checkCalls' # checkCalls =>
       /\ cfg.NumReqs # NilPtr => TestType(cfg) = "counted"
       /\ (cfg.NumReqs = NilPtr /\ cfg.Duration # NilPtr)
            => TestType(cfg) = "timed"
       /\ (cfg.NumReqs = NilPtr /\ cfg.Duration = NilPtr)
            => TestType(cfg) = "none"
       /\ IF cfg.NumReqs = NilPtr /\ cfg.Duration = NilPtr
            THEN /\ cfg'.Duration = DefaultTestDuration
                 /\ cfg'.NumReqs = NilPtr
                 /\ TestType(cfg') = "timed"
            ELSE /\ cfg'.Duration = cfg.Duration
                 /\ cfg'.NumReqs = cfg.NumReqs
                 /\ TestType(cfg') = TestType(cfg)
    ]_vars
C26_Witness ==
  /\ checkCalls = 1
  /\ cfg.NumReqs = NilPtr /\ cfg.Duration = DefaultTestDuration
  /\ checkErr = Nil

SplitN2(value) ==
  IF \A i \in DOMAIN value : value[i] # ":" THEN <<value>>
  ELSE LET i == CHOOSE k \in DOMAIN value :
                  value[k] = ":" /\ \A j \in 1..(k - 1) : value[j] # ":"
       IN <<SubSeq(value, 1, i - 1), SubSeq(value, i + 1, Len(value))>>

RECURSIVE TrimLeft(_)
TrimLeft(t) == IF t # <<>> /\ Head(t) = " " THEN TrimLeft(Tail(t)) ELSE t

RECURSIVE TrimRight(_)
TrimRight(t) ==
  IF t # <<>> /\ t[Len(t)] = " " THEN TrimRight(SubSeq(t, 1, Len(t) - 1))
  ELSE t

\* a Trim that leaves the spaces at the end
Trim_LeftOnly(t) == TrimLeft(t)

\* strings.Trim(t, " ")
Trim(t) == TrimRight(TrimLeft(t))

\* h.Set(value), called for each header argument in turn; its error ends the
\* parsing of the arguments, and main exits
HeadersListSet(value) ==
  /\ Len(headers) < MaxHeaders
  /\ setErr = Nil
  /\ LET res == SplitN2(value) IN
       IF Len(res) # 2
         THEN obj' = [obj EXCEPT !.hdrArg = value,
                                 !.setErr = "errInvalidHeaderFormat"]
         ELSE obj' = [obj EXCEPT
                        !.hdrArg = value,
                        !.headers = Append(@, <<res[1], Trim(res[2])>>),
                        !.setErr = Nil]
  /\ UNCHANGED runVars

HeadersNext == \E value \in TextsUpTo(MaxLen) : HeadersListSet(value)
\* an empty HeadersList
HeadersInit ==
  IdleInit /\ obj = [headers |-> <<>>, hdrArg |-> <<>>, setErr |-> Nil]
HeadersSpec == HeadersInit /\ [][HeadersNext]_vars

\* C28: a Set with a value that has a colon appends one header at the end of
\* the list, the headers before it staying in their order: its key is the text
\* before the first colon, its value the text after it without the spaces at
\* its start and its end; a Set with a value that has no colon returns
\* errInvalidHeaderFormat and leaves the list as it is
C28_HeadersSet ==
  [][hdrVars' # hdrVars =>
       LET v == hdrArg'
           colons == {i \in DOMAIN v : v[i] = ":"}
       IN IF colons = {}
            THEN setErr' = "errInvalidHeaderFormat" /\ headers' = headers
            ELSE LET c == CHOOSE i \in colons : \A j \in colons : i <= j
                     rest == [i \in 1..(Len(v) - c) |-> v[c + i]]
                     h == headers'[Len(headers')]
                     inner == {i \in DOMAIN rest : rest[i] # " "}
                 IN /\ setErr' = Nil
                    /\ Len(headers') = Len(headers) + 1
                    /\ \A i \in DOMAIN headers : headers'[i] = headers[i]
                    /\ h[1] = [i \in 1..(c - 1) |-> v[i]]
                    /\ IF inner = {} THEN h[2] = <<>>
                       ELSE LET a == CHOOSE i \in inner : \A j \in inner : i <= j
                                b == CHOOSE i \in inner : \A j \in inner : j <= i
                            IN h[2] = [i \in 1..(b - a + 1) |-> rest[a + i - 1]]
    ]_vars
C28_Witness ==
  /\ Len(headers) = 2
  /\ headers[1] = headers[2]
  /\ headers[2] = <<<<"a">>, <<"a">>>>
  /\ hdrArg = <<"a", ":", "a">>
  /\ setErr = Nil

\* ---- parsePrintSpec ---------------------------------------------------------
\* a limit of four parts
TooManyParts_Four(n) == n > 4

\* "at most 3 are allowed"
TooManyParts(n) == n > 3

\* the part is one of i, intro, p, progress, r, result
ValidPart(part) == part \in {"i", "intro", "p", "progress", "r", "result"}

\* what parsePrintSpec may return for a spec; for a spec with too many parts
\* one of which is not valid, either error
ParsePrintSpecResults(parts) ==
  LET invalid == {i \in DOMAIN parts : ~ValidPart(parts[i])}
      first == CHOOSE i \in invalid : \A j \in invalid : i <= j
      has(names) == \E i \in DOMAIN parts : parts[i] \in names
      failed(e) == <<FALSE, FALSE, FALSE, e>>
  IN IF parts = <<"">> THEN {failed(PrintErr("errEmptyPrintSpec", ""))}
     ELSE {failed(PrintErr("too many parts", "")) :
             x \in {y \in {0} : TooManyParts(Len(parts))}}
          \cup {failed(PrintErr("not a valid part", parts[i])) :
                  i \in {j \in invalid : j = first}}
          \cup {<<has({"i", "intro"}), has({"p", "progress"}),
                   has({"r", "result"}), PrintErr(Nil, "")>> :
                  x \in {y \in {0} :
                           ~TooManyParts(Len(parts)) /\ invalid = {}}}

\* parsePrintSpec(spec), called once when the arguments are parsed
ParsePrintSpecCall ==
  /\ printRet[4].which = "unset"
  /\ \E parts \in PrintSpecs :
       \E ret \in ParsePrintSpecResults(parts) :
         obj' = [printSpec |-> parts, printRet |-> ret]
  /\ UNCHANGED runVars

\* parsePrintSpec not called yet
PrintSpecInit ==
  /\ IdleInit
  /\ obj = [printSpec |-> <<"">>,
            printRet |-> <<FALSE, FALSE, FALSE, PrintErr("unset", "")>>]
PrintSpecSpec == PrintSpecInit /\ [][ParsePrintSpecCall]_vars

\* C29: parsePrintSpec returns errEmptyPrintSpec for the empty spec, an error
\* for a spec of more than three parts, an error that names the first part
\* which is none of i, intro, p, progress, r, result, and otherwise no error
\* and the three flags, each true exactly when one of its two names is among
\* the parts, in whatever order; with every error the three flags are false
C29_ParsePrintSpec ==
  [][printVars' # printVars =>
       LET parts == printSpec'
           ret == printRet'
           err == ret[4]
           invalid == {i \in DOMAIN parts :
                         parts[i] \notin {"i", "intro", "p", "progress",
                                          "r", "result"}}
           tooMany == PrintErr("too many parts", "")
           notValid == {PrintErr("not a valid part", parts[i]) :
                          i \in {j \in invalid : \A k \in invalid : j <= k}}
       IN /\ err.which # Nil => ret = <<FALSE, FALSE, FALSE, err>>
          /\ IF parts = <<"">> THEN err = PrintErr("errEmptyPrintSpec", "")
             ELSE IF Len(parts) > 3 /\ invalid = {} THEN err = tooMany
             ELSE IF Len(parts) > 3 THEN err \in {tooMany} \cup notValid
             ELSE IF invalid # {} THEN err \in notValid
             ELSE /\ err = PrintErr(Nil, "")
                  /\ ret[1] <=> (\E i \in DOMAIN parts :
                                   parts[i] \in {"i", "intro"})
                  /\ ret[2] <=> (\E i \in DOMAIN parts :
                                   parts[i] \in {"p", "progress"})
                  /\ ret[3] <=> (\E i \in DOMAIN parts :
                                   parts[i] \in {"r", "result"})
    ]_vars
C29_Witness ==
  /\ printSpec = <<"result", "i">>
  /\ printRet = <<TRUE, FALSE, TRUE, PrintErr(Nil, "")>>

\* ---- errorMap.byFrequency ---------------------------------------------------
\* errorMap.add(err) for an error with message msg
ErrorMapAdd(msg) ==
  /\ errorMap[msg] < MaxCount
  /\ obj' = [obj EXCEPT !.errorMap[msg] = @ + 1, !.freqFresh = FALSE]
  /\ UNCHANGED runVars

\* an order by count alone
ByFrequencyLess_CountOnly(x, y) == x[2] > y[2]

\* the order of byFrequency: larger count first, of equal counts the smaller
\* message first
ByFrequencyLess(x, y) == x[2] > y[2] \/ (x[2] = y[2] /\ MsgLess(x[1], y[1]))

\* the lists that a sort of the map's (message, count) pairs by
\* ByFrequencyLess may end with, whatever order the map hands them out in
ByFrequencyResults(m) ==
  LET present == {msg \in Msgs : m[msg] > 0}
      n == Cardinality(present)
      orders == {o \in [1..n -> present] : \A i, j \in 1..n : i # j => o[i] # o[j]}
      pairs(o) == [i \in 1..n |-> <<o[i], m[o[i]]>>]
  IN {pairs(o) : o \in {q \in orders :
        \A i, j \in 1..n : i < j => ~ByFrequencyLess(pairs(q)[j], pairs(q)[i])}}

\* errorMap.byFrequency()
ByFrequencyCall ==
  /\ \E sorted \in ByFrequencyResults(errorMap) :
       obj' = [obj EXCEPT !.freq = sorted, !.freqFresh = TRUE]
  /\ UNCHANGED runVars

FrequencyNext == (\E msg \in Msgs : ErrorMapAdd(msg)) \/ ByFrequencyCall
\* an empty errorMap
FrequencyInit ==
  /\ IdleInit
  /\ obj = [errorMap |-> [m \in Msgs |-> 0], freq |-> <<>>,
            freqFresh |-> FALSE]
FrequencySpec == FrequencyInit /\ [][FrequencyNext]_vars

\* C30: what byFrequency returns lists every message of the map exactly once
\* with its count, by count descending and among equal counts by message
\* ascending, and a further call on the unmodified map returns the same list
C30_ByFrequency ==
  [][freqFresh' =>
       /\ \A msg \in Msgs :
            IF errorMap'[msg] > 0
              THEN Cardinality({i \in DOMAIN freq' : freq'[i][1] = msg}) = 1
                   /\ \E i \in DOMAIN freq' :
                        freq'[i] = <<msg, errorMap'[msg]>>
              ELSE \A i \in DOMAIN freq' : freq'[i][1] # msg
       /\ \A i, j \in DOMAIN freq' :
            i < j => \/ freq'[i][2] > freq'[j][2]
                     \/ /\ freq'[i][2] = freq'[j][2]
                        /\ MsgLess(freq'[i][1], freq'[j][1])
       /\ (freqFresh /\ errorMap' = errorMap) => freq' = freq
    ]_vars
C30_Witness ==
  /\ freqFresh
  /\ freq = <<<<"request timeout", 2>>,
              <<"dial tcp: connection refused", 1>>,
              <<"tls: handshake failure", 1>>>>

\* ---- the return of Bombard() ---------------------------------------------------
\* C31: Bombard() gets past its join, and so returns, only with the done-signal
\* closed: in a timed run without Cancel() the deadline task has fired by then,
\* and in a counted run without Cancel() reqsDone has reached numReqs, whether
\* or not workers have left their loops before that on a grab beyond numReqs.
C31_ReturnAfterDone ==
  cpc \in {"recv1", "recv2", "returned"} =>
    /\ doneChan = "closed"
    /\ (cancelCalls = 0 /\ kind = "timed") => timerPc = "fired"
    /\ (cancelCalls = 0 /\ kind = "counted") => reqsDone = numReqs
\* a counted run has returned without Cancel(), one worker at least having
\* left its loop on a grab beyond numReqs
C31_Witness ==
  /\ cpc = "returned" /\ kind = "counted" /\ cancelCalls = 0
  /\ reqsGrabbed > numReqs /\ numConns > 1

\* ---- the progress sampler up to its exit ----------------------------------------
\* the barrier, its workers and the whole of barUpdater()
ProgressExitNext ==
  \/ ProgressNext
  \/ BarUpdaterSend

ProgressExitSpec == Init /\ [][ProgressExitNext]_vars

\* C32: barUpdater() takes its done case only with the done-signal closed,
\* whatever closed it, and sets the bar to Total there; from then on it only
\* sends its exit notification and the bar stays at Total; every value it sets
\* before is completed() * Total, cut to an integer.
C32_LastValueIsTotal ==
  /\ [][/\ (bpc = "select" /\ bpc' # "select")
            => IF doneChan = "closed"
                 THEN bpc' = "send" /\ bar' = barTotal
                 ELSE bpc' = "completed" /\ bar' = bar
        /\ (bpc = "completed" /\ bpc' # "completed")
            => bpc' = "select" /\ bar' = Scale(completed, barTotal)
        /\ bpc \in {"send", "exited"}
            => /\ bar' = bar
               /\ bpc' \in {"send", "exited"}
               /\ (bpc' # bpc) => (bpc' = "exited"
                                     /\ notifyChan' = notifyChan + 1)
       ]_vars
  /\ [](bpc \in {"send", "exited"} => bar = barTotal /\ doneChan = "closed")
\* Cancel() came before the last request of a counted run was done: the
\* sampler has set the bar to Total all the same, and has exited
C32_Witness ==
  /\ bpc = "exited" /\ notifyChan = 1 /\ bar = barTotal
  /\ kind = "counted" /\ cancelCalls > 0 /\ reqsDone < numReqs
  /\ reqsDone > 0

\* ---- the RPS bookkeeping, statement by statement ----------------------------------
\* the tasks that take the mutex
Task(w) == <<"worker", w>>
RateMeterTask == <<"rateMeter", 0>>

\* a Lock() that is granted whoever holds the mutex
RplLockReady_Always(holders) == TRUE

\* b.rpl.Lock() returns once nobody holds the mutex
RplLockReady(holders) == holders = {}

\* performSingleRequest from the return of client.do, without an error, up to
\* the b.rpl.Lock() of writeStatistics
WriteStatisticsLock(w) ==
  /\ wpc[w] = "do"
  /\ RplLockReady(rpl)
  /\ latencies' = LatenciesIncrement(latencies)
  /\ obj' = [obj EXCEPT !.rpl = @ \cup {Task(w)}]
  /\ wpc' = [wpc EXCEPT ![w] = "load"]
  /\ UNCHANGED <<confVars, barrierVars, timeVars, tokens, workers, cpc,
                 samplerVars, reqs, doCalls, trueGrabs, cancelCalls, counters,
                 errors, errReturns>>

\* b.reqs++: the read
ReqsLoad(w) ==
  /\ wpc[w] = "load"
  /\ obj' = [obj EXCEPT !.loaded[w] = reqs]
  /\ wpc' = [wpc EXCEPT ![w] = "store"]
  /\ UNCHANGED <<confVars, barrierVars, timeVars, tokens, workers, cpc,
                 samplerVars, reqs, doCalls, trueGrabs, cancelCalls, statVars>>

\* b.reqs++: the write
ReqsStore(w) ==
  /\ wpc[w] = "store"
  /\ reqs' = loaded[w] + 1
  /\ obj' = [obj EXCEPT !.loaded[w] = 0]
  /\ wpc' = [wpc EXCEPT ![w] = "unlock"]
  /\ UNCHANGED <<confVars, barrierVars, timeVars, tokens, workers, cpc,
                 samplerVars, doCalls, trueGrabs, cancelCalls, statVars>>

\* a writeStatistics that returns with the mutex held
WriteStatisticsUnlock_KeepsLock(w) ==
  /\ wpc[w] = "unlock"
  /\ counters' = [counters EXCEPT ![StatusCounter(200)] = @ + 1]
  /\ IF kind = "timed" THEN TimedJobDone ELSE UNCHANGED barrierVars
  /\ wpc' = [wpc EXCEPT ![w] = AfterRequest(Nil)]
  /\ UNCHANGED <<confVars, timeVars, tokens, workers, cpc, samplerVars, reqs,
                 doCalls, trueGrabs, cancelCalls, latencies, errors,
                 errReturns, obj>>

\* b.rpl.Unlock() and the rest of writeStatistics: the status counter; then
\* the jobDone() call of a timed run
WriteStatisticsUnlock(w) ==
  /\ wpc[w] = "unlock"
  /\ obj' = [obj EXCEPT !.rpl = @ \ {Task(w)}]
  /\ counters' = [counters EXCEPT ![StatusCounter(200)] = @ + 1]
  /\ IF kind = "timed" THEN TimedJobDone ELSE UNCHANGED barrierVars
  /\ wpc' = [wpc EXCEPT ![w] = AfterRequest(Nil)]
  /\ UNCHANGED <<confVars, timeVars, tokens, workers, cpc, samplerVars, reqs,
                 doCalls, trueGrabs, cancelCalls, latencies, errors,
                 errReturns>>

\* case <-tick: b.recordRps(), up to its b.rpl.Lock()
RecordRpsLockTick ==
  /\ rpc = "select"
  /\ RplLockReady(rpl)
  /\ obj' = [obj EXCEPT !.rpl = @ \cup {RateMeterTask}, !.final = FALSE]
  /\ rpc' = "read"
  /\ UNCHANGED <<confVars, barrierVars, timeVars, tokens, wpc, workers, cpc,
                 bpc, notifyChan, bar, reqs, doCalls, trueGrabs, cancelCalls,
                 statVars>>

\* b.workers.Wait() returns; the last b.recordRps(), up to its b.rpl.Lock()
RecordRpsLockFinal ==
  /\ rpc = "wait"
  /\ workers = 0
  /\ RplLockReady(rpl)
  /\ obj' = [obj EXCEPT !.rpl = @ \cup {RateMeterTask}, !.final = TRUE]
  /\ rpc' = "read"
  /\ UNCHANGED <<confVars, barrierVars, timeVars, tokens, wpc, workers, cpc,
                 bpc, notifyChan, bar, reqs, doCalls, trueGrabs, cancelCalls,
                 statVars>>

\* reqs := b.reqs
RecordRpsRead ==
  /\ rpc = "read"
  /\ obj' = [obj EXCEPT !.sample = reqs]
  /\ rpc' = "reset"
  /\ UNCHANGED <<confVars, barrierVars, timeVars, tokens, wpc, workers, cpc,
                 bpc, notifyChan, bar, reqs, doCalls, trueGrabs, cancelCalls,
                 statVars>>

\* b.reqs = 0; b.start = time.Now()
RecordRpsReset ==
  /\ rpc = "reset"
  /\ reqs' = 0
  /\ rpc' = "unlock"
  /\ UNCHANGED <<confVars, barrierVars, timeVars, tokens, wpc, workers, cpc,
                 bpc, notifyChan, bar, doCalls, trueGrabs, cancelCalls,
                 statVars, obj>>

\* b.rpl.Unlock(); b.requests.Increment(reqsf): the sample is taken; back to
\* the select, or on to the send after the last sample
RecordRpsUnlock ==
  /\ rpc = "unlock"
  /\ obj' = [obj EXCEPT !.rpl = @ \ {RateMeterTask},
                        !.sampled = @ + sample, !.sample = 0]
  /\ rpc' = IF final THEN "send" ELSE "select"
  /\ UNCHANGED <<confVars, barrierVars, timeVars, tokens, wpc, workers, cpc,
                 bpc, notifyChan, bar, reqs, doCalls, trueGrabs, cancelCalls,
                 statVars>>

\* a run without Cancel() against a server that answers every request,
\* writeStatistics and recordRps taken statement by statement; of the
\* progress sampler only the exit is scheduled
RpsNext ==
  \/ Tick
  \/ Refill
  \/ DeadlineFire
  \/ \E w \in Conns : CountingTryGrabWorkSelect(w)
  \/ \E w \in Conns : CountingTryGrabWorkAdd(w)
  \/ \E w \in Conns : TimedTryGrabWork(w)
  \/ \E w \in Conns : WorkerPaceContinue(w)
  \/ \E w \in Conns : WorkerPaceBreak(w)
  \/ \E w \in Conns : WriteStatisticsLock(w)
  \/ \E w \in Conns : ReqsLoad(w)
  \/ \E w \in Conns : ReqsStore(w)
  \/ \E w \in Conns : WriteStatisticsUnlock(w)
  \/ \E w \in Conns : CountingJobDone(w)
  \/ \E w \in Conns : CountingJobDoneClose(w)
  \/ BombardStart
  \/ BombardJoin
  \/ BombardRecv
  \/ RecordRpsLockTick
  \/ RateMeterDone
  \/ RecordRpsLockFinal
  \/ RecordRpsRead
  \/ RecordRpsReset
  \/ RecordRpsUnlock
  \/ RateMeterSend
  \/ BarUpdaterDone
  \/ BarUpdaterSend

\* nobody holds the mutex and no sample is taken yet
RpsInit ==
  /\ RunInit
  /\ obj = [rpl |-> {}, loaded |-> [w \in Conns |-> 0], sample |-> 0,
            sampled |-> 0, final |-> FALSE]

RpsSpec == RpsInit /\ [][RpsNext]_vars

\* C33: the mutex has one holder at most; whenever nobody holds it, every
\* request recorded so far is either in b.reqs or in one sample, and in one
\* only; the last sample is begun with all workers returned; and when
\* Bombard() has returned b.reqs is 0 and the samples add up to the number of
\* requests performed.
C33_NoRequestLost ==
  /\ Cardinality(rpl) <= 1
  /\ rpl = {} => sampled + reqs = latencies
  /\ (final /\ rpc \in {"read", "reset", "unlock"}) => workers = 0
  /\ cpc = "returned" => (reqs = 0 /\ sampled = doCalls /\ latencies = doCalls)
\* a tick has taken a sample in the middle of the run: one request is in it
\* and a later one in b.reqs, with the last sample still to come
C33_Witness ==
  /\ rpl = {} /\ sampled > 0 /\ reqs > 0 /\ rpc = "select"
  /\ cpc = "wait"

\* C35: a worker holds the RPS mutex only from the Lock() of writeStatistics to
\* its Unlock(), the RPS sampler only from the Lock() of recordRps to its
\* Unlock(), and nobody else ever: not a worker inside client.do or in pace,
\* not the sampler or Bombard() waiting for the workers. With every worker
\* outside writeStatistics the sampler's Lock() is granted.
C35_MutexOnlyForArithmetic ==
  /\ rpl \subseteq {Task(w) : w \in Conns} \cup {RateMeterTask}
  /\ \A w \in Conns :
       Task(w) \in rpl => wpc[w] \in {"load", "store", "unlock"}
  /\ RateMeterTask \in rpl => rpc \in {"read", "reset", "unlock"}
  /\ \A w \in Conns : wpc[w] \in {"do", "pace"} => Task(w) \notin rpl
  /\ rpc = "wait" => RateMeterTask \notin rpl
  /\ (rpc = "select"
        /\ \A w \in Conns : wpc[w] \notin {"load", "store", "unlock"})
       => ENABLED RecordRpsLockTick
\* the sampler is inside recordRps while one worker is inside client.do and
\* another is held up by the limiter, and the sampler gets out of it all the
\* same: neither worker holds the mutex
C35_Witness ==
  /\ RateMeterTask \in rpl /\ rpc = "reset"
  /\ \E w \in Conns : wpc[w] = "do"
  /\ \E w \in Conns : wpc[w] = "pace" /\ limited /\ tokens = 0
  /\ doneChan = "open"
  /\ ENABLED RecordRpsReset

\* C34: once Bombard() has returned nothing writes the status counters, the
\* latency histogram, the error map or the RPS bookkeeping any more: every
\* worker has returned and the RPS sampler has exited, so that no request can
\* be recorded and neither a periodic nor the final recordRps() can run; what
\* gatherInfo reads then stays as it is.
C34_StableAfterReturn ==
  /\ [][cpc = "returned" =>
          /\ latencies' = latencies /\ counters' = counters
          /\ errors' = errors /\ reqs' = reqs
          /\ wpc' = wpc /\ rpc' = rpc
       ]_vars
  /\ [](cpc = "returned" =>
          /\ \A w \in Conns : wpc[w] \in {"off", "finished"}
          /\ \A w \in Conns : ~ENABLED DoReturnOrFail(w)
          /\ rpc = "exited"
          /\ ~ENABLED RateMeterTick /\ ~ENABLED RateMeterFinal)
\* Bombard() has returned from a run of all workers in which a request
\* failed and another was answered
C34_Witness ==
  /\ cpc = "returned" /\ numConns = MaxConns
  /\ Sum(errors) > 0 /\ counters["req2xx"] > 0 /\ latencies = MaxReqs

\* C36: when Bombard() has returned the six status counters sum to the number
\* of client.do calls made, which is also the number of values in the latency
\* histogram; in a counted run without Cancel() that number is numReqs, failed
\* requests included: a request that failed with status code 0 is counted
\* under others, an answered one under its class.
C36_CountersSumToCalls ==
  cpc = "returned" =>
    /\ Sum(counters) = doCalls
    /\ latencies = doCalls
    /\ (kind = "counted" /\ cancelCalls = 0) => Sum(counters) = numReqs
    /\ counters["others"] = errReturns
    /\ counters["req2xx"] = doCalls - errReturns
\* a counted run without Cancel() has returned, one of its requests failed
\* and one was answered
C36_Witness ==
  /\ cpc = "returned" /\ kind = "counted" /\ cancelCalls = 0
  /\ numReqs = MaxReqs /\ errReturns > 0 /\ errReturns < doCalls

\* C37: for the counted barrier driven by the worker loop reqsDone never
\* exceeds numReqs nor the number of tryGrabWork() calls that returned true;
\* a worker that leaves its loop from pace, after a grab that returned true,
\* returns without a jobDone() for that grab, so that reqsDone stays where it
\* is, below numReqs if it was, once the run is over; and a run on which
\* Cancel() was called is over in the end.
C37_DoneBelowGrabs ==
  /\ [](kind = "counted" => (reqsDone <= numReqs /\ reqsDone <= trueGrabs))
  /\ [][\A w \in Conns :
          (kind = "counted" /\ wpc[w] = "pace" /\ wpc'[w] = "finished")
            => (reqsDone' = reqsDone /\ doCalls' = doCalls
                /\ reqsDone < trueGrabs)
       ]_vars
  /\ [][Terminated => reqsDone' = reqsDone]_vars
  /\ (kind = "counted" /\ cancelCalls > 0) ~> Terminated
\* a cancelled rate-limited counted run is over with fewer jobDone() calls
\* than successful grabs and than numReqs
C37_Witness ==
  /\ Terminated /\ kind = "counted" /\ cancelCalls > 0 /\ limited
  /\ reqsDone < trueGrabs /\ reqsDone < numReqs /\ doneChan = "closed"

\* C38: checkArgs on a Config that breaks several rules returns the error of
\* the rule that comes first in the order URL, rate, connections, request
\* count, duration, timeout, unknown method, body not allowed, body given
\* twice, certificate paths (the URL rule's error being errInvalidURL or the
\* error of the URL parser); a Config with NumReqs set never gets
\* errInvalidTestDuration, and a body given twice for a method that carries
\* no body gets errBodyNotAllowed unless an earlier rule is broken.
C38_FirstFailingCheck ==
  [][checkCalls' # checkCalls =>
       LET c == cfg
           Broken ==
             << <<~c.Url.ok \/ c.Url.host = ""
                    \/ c.Url.scheme \notin {"", "http", "https"},
                  {"errInvalidURL", "urlx: invalid host"}>>,
                <<c.Rate # NilPtr /\ c.Rate < 1, {"errZeroRate"}>>,
                <<c.NumConns < 1, {"errInvalidNumberOfConns"}>>,
                <<c.NumReqs # NilPtr /\ c.NumReqs < 1,
                  {"errInvalidNumberOfRequests"}>>,
                <<c.NumReqs = NilPtr /\ c.Duration # NilPtr
                    /\ c.Duration < Second,
                  {"errInvalidTestDuration"}>>,
                <<c.Timeout < 0, {"errNegativeTimeout"}>>,
                <<c.Method \notin HttpMethods, {"invalidHTTPMethodError"}>>,
                <<c.Method \in CantHaveBody
                    /\ (c.Body # "" \/ c.BodyFilePath # ""),
                  {"errBodyNotAllowed"}>>,
                <<c.Body # "" /\ c.BodyFilePath # "",
                  {"errBodyProvidedTwice"}>>,
                <<c.CertPath # "" /\ c.KeyPath = "", {"errNoPathToKey"}>>,
                <<c.CertPath = "" /\ c.KeyPath # "", {"errNoPathToCert"}>> >>
           broken == {i \in DOMAIN Broken : Broken[i][1]}
       IN /\ \A i \in broken :
               (\A j \in broken : i <= j) => checkErr' \in Broken[i][2]
          /\ c.NumReqs # NilPtr => checkErr' # "errInvalidTestDuration"
          /\ (c.Method \in CantHaveBody /\ c.Body # ""
                /\ c.BodyFilePath # "")
               => checkErr' # "errBodyProvidedTwice"
          /\ (broken \cap (1..7) = {} /\ {8, 9} \subseteq broken)
               => checkErr' = "errBodyNotAllowed"
    ]_vars
\* checkArgs has returned errBodyNotAllowed for a counted Config with a
\* Duration below one second, both bodies for GET and a certificate without
\* its key
C38_Witness ==
  /\ checkCalls > 0 /\ checkErr = "errBodyNotAllowed"
  /\ cfg.NumReqs = 1 /\ cfg.Duration = 999
  /\ cfg.Method = "GET" /\ cfg.Body # "" /\ cfg.BodyFilePath # ""
  /\ cfg.CertPath # "" /\ cfg.KeyPath = ""

\* C39: the join counter starts at numConns and loses exactly one in the step
\* in which a worker returns, once for each worker, nothing else writing it:
\* it is numConns less the workers that have returned, never negative, and 0
\* exactly when the last worker has returned. Bombard() and the RPS sampler
\* get past their Wait() with the counter at 0 only, and can get past it
\* as soon as it is 0.
C39_JoinCounter ==
  /\ [][/\ workers' # workers =>
            /\ workers' = workers - 1
            /\ Cardinality({w \in Conns : wpc[w] # "finished"
                                            /\ wpc'[w] = "finished"}) = 1
          /\ \A w \in Conns :
               /\ (wpc[w] # "finished" /\ wpc'[w] = "finished")
                    => workers' = workers - 1
               /\ wpc[w] = "finished" => wpc'[w] = "finished"
       ]_vars
  /\ [](/\ workers >= 0
        /\ workers = numConns
                       - Cardinality({w \in Conns : wpc[w] = "finished"})
        /\ (workers = 0)
             <=> (\A w \in Conns : w <= numConns => wpc[w] = "finished")
        /\ cpc \in {"recv1", "recv2", "returned"} => workers = 0
        /\ rpc \in {"send", "exited"} => workers = 0
        /\ cpc = "wait" => ((workers = 0) <=> ENABLED BombardJoin)
        /\ rpc = "wait" => ((workers = 0) <=> ENABLED RateMeterFinal))
\* the last of several workers has returned and both waiters are still in
\* their Wait()
C39_Witness ==
  /\ workers = 0 /\ numConns = MaxConns /\ cpc = "wait" /\ rpc = "wait"
  /\ doCalls > 0

====
